---- MODULE Spec2Model ----
(***************************************************************************)
(* Model of the deploy pipeline of the execution engine                    *)
(* (engine-core/src/engine_state/mod.rs, EngineState::deploy).             *)
(*                                                                         *)
(* 32-byte addresses and public keys are abstracted to small naturals;     *)
(* SYSTEM_ACCOUNT_ADDR = [0u8; 32] is the address 0.  Motes and gas keep   *)
(* their real magnitudes.                                                  *)
(***************************************************************************)
EXTENDS Integers, Sequences, FiniteSets, TLC

(***************************************************************************)
(* Program constants                                                       *)
(***************************************************************************)
MAX_PAYMENT == 10000000
CONV_RATE == 10
DEFAULT_SESSION_MOTES == 1000000000
SYSTEM_ACCOUNT_ADDR == 0
HASH_SIZE == 32
UREF_ADDR_SIZE == 32
MINT_NAME == "mint"
POS_NAME == "pos"
POS_REWARDS_PURSE == "pos_rewards_purse"
POS_PAYMENT_PURSE == "pos_payment_purse"

(***************************************************************************)
(* Bounds of the model                                                     *)
(***************************************************************************)
\* deployment thresholds of the account range over 1..MaxThreshold
MaxThreshold == 3
\* keys a payment or session program may write besides the purses
NumUserKeys == 2
\* motes an account may hold above MAX_PAYMENT
Surplus == 25

(***************************************************************************)
(* Keys, values, transforms                                                *)
(***************************************************************************)
EmptyMap == [x \in {} |-> 0]

Restrict(f, S) == [x \in S |-> f[x]]

\* Addresses used by the pre-states of the model.
Addr == [account |-> 1, mint_pub |-> 10, mint_inner |-> 11, pos_pub |-> 20,
         pos_inner |-> 21, main_purse |-> 30, payment_purse |-> 31,
         rewards_purse |-> 32, main_balance |-> 40, payment_balance |-> 41,
         rewards_balance |-> 42, other_balance |-> 43, stored_contract |-> 50,
         stored_hash |-> 51, forged |-> 60, user |-> 100]

MkKey(tag, addr, rights) == [tag |-> tag, addr |-> addr, rights |-> rights]

AccountKey(addr) == MkKey("Account", addr, "NONE")

HashKey(addr) == MkKey("Hash", addr, "NONE")

URefKey(addr, rights) == MkKey("URef", addr, rights)

\* the local key under which the mint keeps the balance key of a purse
LocalKey(addr) == MkKey("Local", addr, "NONE")

\* Key::normalize: erases the access rights of a URef key
normalize(key) == [key EXCEPT !.rights = "NONE"]

is_readable(key) == key.rights \in {"READ", "READ_ADD", "READ_WRITE", "READ_ADD_WRITE"}

is_writeable(key) ==
    key.rights \in {"WRITE", "READ_WRITE", "ADD_WRITE", "READ_ADD_WRITE"}

AccountValue(addr, known_keys, main_purse, associated_keys, deployment) ==
    [ty |-> "Account", addr |-> addr, known_keys |-> known_keys,
     main_purse |-> main_purse, associated_keys |-> associated_keys,
     deployment |-> deployment, key_management |-> 1]

ContractValue(bytes, known_keys) ==
    [ty |-> "Contract", bytes |-> bytes, known_keys |-> known_keys]

KeyValue(key) == [ty |-> "Key", key |-> key]

U512Value(n) == [ty |-> "U512", v |-> n]

Int32Value(n) == [ty |-> "Int32", v |-> n]

Identity == [t |-> "Identity"]

Write(value) == [t |-> "Write", value |-> value]

AddUInt512(n) == [t |-> "AddUInt512", n |-> n]

Failure == [t |-> "Failure"]

UserKeys == {HashKey(Addr.user + i) : i \in 1..NumUserKeys}

(***************************************************************************)
(* Transform algebra and tracking copy                                     *)
(***************************************************************************)
NotFound == [ty |-> "NotFound"]

\* A later transform recorded at a key of one tracking copy that already
\* holds `old`: adds merge by addition, a write replaces a write, mixing a
\* write with an add is a Failure.
Combine(old, new) ==
    CASE new.t = "Identity" -> old
      [] old.t = "Identity" -> new
      [] old.t = "Failure" \/ new.t = "Failure" -> Failure
      [] old.t = "Write" /\ new.t = "Write" -> new
      [] old.t = "AddUInt512" /\ new.t = "AddUInt512" -> AddUInt512(old.n + new.n)
      [] OTHER -> Failure

\* A later phase's transform on top of an earlier phase's: a write dominates,
\* an add to an earlier write is folded into the written value.
MergeTransform(old, new) ==
    CASE new.t = "Identity" -> old
      [] old.t = "Identity" -> new
      [] old.t = "Failure" \/ new.t = "Failure" -> Failure
      [] new.t = "Write" -> new
      [] old.t = "AddUInt512" -> AddUInt512(old.n + new.n)
      [] old.value.ty = "U512" -> Write(U512Value(old.value.v + new.n))
      [] OTHER -> Failure

MergeEffects(e1, e2) ==
    [k \in DOMAIN e1 \cup DOMAIN e2 |->
        IF k \notin DOMAIN e2 THEN e1[k]
        ELSE IF k \notin DOMAIN e1 THEN e2[k]
        ELSE MergeTransform(e1[k], e2[k])]

\* the value a transform leaves at a key holding `value` (NotFound if none)
ApplyTransform(value, tr) ==
    CASE tr.t = "Identity" -> value
      [] tr.t = "Write" -> tr.value
      [] tr.t = "AddUInt512" /\ value.ty = "U512" -> U512Value(value.v + tr.n)
      [] OTHER -> value

\* the global state a set of transforms produces from `store`
ApplyEffects(store, transforms) ==
    LET all == [k \in DOMAIN store \cup DOMAIN transforms |->
                   LET old == IF k \in DOMAIN store THEN store[k] ELSE NotFound
                   IN IF k \in DOMAIN transforms
                      THEN ApplyTransform(old, transforms[k]) ELSE old]
    IN Restrict(all, {k \in DOMAIN all : all[k] # NotFound})

\* TrackingCopy::new: `view` is what reads of the tracking copy see (the
\* reader's state under the transforms recorded so far), `fns` the transforms
NewTrackingCopy(reader) == [view |-> reader, fns |-> EmptyMap]

\* TrackingCopy::fork: a new overlay reading through the parent
fork(tc) == NewTrackingCopy(tc.view)

\* TrackingCopy::effect
effect(tc) == tc.fns

Record(tc, key, tr) ==
    [view |-> ApplyEffects(tc.view, key :> tr),
     fns |-> IF key \in DOMAIN tc.fns
             THEN [tc.fns EXCEPT ![key] = Combine(tc.fns[key], tr)]
             ELSE (key :> tr) @@ tc.fns]

\* TrackingCopy::read: the value and the tracking copy with the read recorded
tc_read(tc, key) ==
    IF key \in DOMAIN tc.view
    THEN [tc |-> [tc EXCEPT !.fns = IF key \in DOMAIN tc.fns THEN tc.fns
                                     ELSE (key :> Identity) @@ tc.fns],
          value |-> tc.view[key]]
    ELSE [tc |-> tc, value |-> NotFound]

tc_write(tc, key, value) == Record(tc, key, Write(value))

tc_add(tc, key, n) == Record(tc, key, AddUInt512(n))

\* TrackingCopyExt::get_account
get_account(tc, addr) ==
    LET r == tc_read(tc, AccountKey(addr))
    IN [tc |-> r.tc, ok |-> r.value.ty = "Account", value |-> r.value,
        error |-> IF r.value = NotFound THEN "KeyNotFound" ELSE "TypeMismatch"]

\* TrackingCopyExt::get_contract
get_contract(tc, key) ==
    LET r == tc_read(tc, key)
    IN [tc |-> r.tc, ok |-> r.value.ty = "Contract", value |-> r.value,
        error |-> IF r.value = NotFound THEN "KeyNotFound" ELSE "TypeMismatch"]

\* TrackingCopyExt::get_system_contract_info: the public URef holds the inner
\* URef key, which holds the contract
get_system_contract_info(tc, public_uref) ==
    LET r1 == tc_read(tc, public_uref)
        isKey == r1.value.ty = "Key" /\ r1.value.key.tag = "URef"
        r2 == IF isKey THEN tc_read(r1.tc, normalize(r1.value.key))
              ELSE [tc |-> r1.tc, value |-> NotFound]
        ok == isKey /\ r2.value.ty = "Contract"
    IN [tc |-> r2.tc, ok |-> ok,
        inner_key |-> IF isKey THEN r1.value.key ELSE public_uref,
        contract |-> r2.value,
        error |-> IF r1.value = NotFound \/ (isKey /\ r2.value = NotFound)
                  THEN "KeyNotFound" ELSE "TypeMismatch"]

\* TrackingCopyExt::get_purse_balance_key: the mint's local entry of the purse
get_purse_balance_key(tc, mint_inner, purse_key) ==
    LET isURef == purse_key.tag = "URef"
        r == IF isURef THEN tc_read(tc, LocalKey(purse_key.addr))
             ELSE [tc |-> tc, value |-> NotFound]
        ok == isURef /\ r.value.ty = "Key"
    IN [tc |-> r.tc, ok |-> ok,
        key |-> IF ok THEN normalize(r.value.key) ELSE purse_key,
        error |-> IF ~isURef THEN "TypeMismatch"
                  ELSE IF r.value = NotFound THEN "KeyNotFound" ELSE "TypeMismatch"]

\* TrackingCopyExt::get_purse_balance
get_purse_balance(tc, balance_key) ==
    LET r == tc_read(tc, balance_key)
        ok == r.value.ty = "U512"
    IN [tc |-> r.tc, ok |-> ok, balance |-> IF ok THEN r.value.v ELSE 0,
        error |-> IF r.value = NotFound THEN "KeyNotFound" ELSE "TypeMismatch"]

(***************************************************************************)
(* Accounts, errors, execution results                                     *)
(***************************************************************************)
RECURSIVE SumWeights(_, _)
SumWeights(weights, keys) ==
    IF keys = {} THEN 0
    ELSE LET k == CHOOSE x \in keys : TRUE
         IN weights[k] + SumWeights(weights, keys \ {k})

\* Account::can_authorize: every supplied key is an associated key
can_authorize(account, authorization_keys) ==
    authorization_keys \subseteq DOMAIN account.associated_keys

\* Account::can_deploy_with: the supplied keys' weights reach the threshold
can_deploy_with(account, authorization_keys) ==
    SumWeights(account.associated_keys,
               authorization_keys \cap DOMAIN account.associated_keys)
        >= account.deployment

Err(kind) == [kind |-> kind]

MissingSystemContractError(name) == [kind |-> "MissingSystemContractError", name |-> name]

InvalidHashLength(expected, actual) ==
    [kind |-> "InvalidHashLength", expected |-> expected, actual |-> actual]

ForgedReference(uref) == [kind |-> "ForgedReference", uref |-> uref]

KeyNotFound(key) == [kind |-> "KeyNotFound", key |-> key]

NoError == [kind |-> "None"]

\* ExecutionResult::Success / ExecutionResult::Failure
Success(eff, cost) == [tag |-> "Success", error |-> NoError, effect |-> eff, cost |-> cost]

FailureResult(error, eff, cost) ==
    [tag |-> "Failure", error |-> error, effect |-> eff, cost |-> cost]

\* ExecutionResult::precondition_failure: no effect, no cost
precondition_failure(error) == FailureResult(error, EmptyMap, 0)

is_failure(result) == result.tag = "Failure"

\* Gas::from_motes(motes, conv_rate).unwrap_or_default()
Gas_from_motes(motes, conv_rate) == IF conv_rate = 0 THEN 0 ELSE motes \div conv_rate

\* Motes::from_gas(gas, conv_rate)
Motes_from_gas(gas, conv_rate) == gas * conv_rate

\* a metered gas limit, and Gas::from_u64(std::u64::MAX)
GasLimit(n) == [gas |-> n]

GAS_U64_MAX == [gas_u64_max |-> TRUE]

(***************************************************************************)
(* Pre-states                                                              *)
(***************************************************************************)
\* The account's associated keys: its own key with weight 1, a second key
\* with weight 2.  Public key 3 is associated with no account.
AssociatedKeys == (1 :> 1) @@ (2 :> 2)

PublicKeys == {1, 2, 3}

AuthKeySets == {{}, {1}, {1, 2}, {1, 3}}

MainPurse == URefKey(Addr.main_purse, "READ_ADD_WRITE")

\* names in the order a BTreeMap iterates them
NameOrder == <<"contract", "contract_b", MINT_NAME, POS_NAME, POS_PAYMENT_PURSE, POS_REWARDS_PURSE>>

\* the account's references to the stored contract, by the variant `c`:
\* one URef that is readable ("read") or not ("write"), none, a Hash key of
\* the same address, or two URefs of the same address of which the first
\* ("write_then_read") or the second ("read_then_write") is not readable
ContractKnownKeys(c) ==
    CASE c = "read" -> "contract" :> URefKey(Addr.stored_contract, "READ")
      [] c = "write" -> "contract" :> URefKey(Addr.stored_contract, "WRITE")
      [] c = "hash" -> "contract" :> HashKey(Addr.stored_contract)
      [] c = "write_then_read" ->
            ("contract" :> URefKey(Addr.stored_contract, "WRITE"))
            @@ ("contract_b" :> URefKey(Addr.stored_contract, "READ"))
      [] c = "read_then_write" ->
            ("contract" :> URefKey(Addr.stored_contract, "READ"))
            @@ ("contract_b" :> URefKey(Addr.stored_contract, "WRITE"))
      [] OTHER -> EmptyMap

\* known keys holding the unattenuated references of the system account
AccountKnownKeys_Unattenuated(p) ==
    LET all == (MINT_NAME :> URefKey(Addr.mint_pub, "READ_ADD_WRITE"))
               @@ (POS_NAME :> URefKey(Addr.pos_pub, "READ_ADD_WRITE"))
    IN ContractKnownKeys(p.contract)
       @@ Restrict(all, (IF p.mint = "absent" THEN {} ELSE {MINT_NAME})
                        \cup (IF p.pos = "absent" THEN {} ELSE {POS_NAME}))

AccountKnownKeys(p) ==
    LET all == (MINT_NAME :> URefKey(Addr.mint_pub, "READ"))
               @@ (POS_NAME :> URefKey(Addr.pos_pub, "READ"))
    IN ContractKnownKeys(p.contract)
       @@ Restrict(all, (IF p.mint = "absent" THEN {} ELSE {MINT_NAME})
                        \cup (IF p.pos = "absent" THEN {} ELSE {POS_NAME}))

PosKnownKeys(p) ==
    LET all == (POS_PAYMENT_PURSE :> URefKey(Addr.payment_purse, "READ_ADD_WRITE"))
               @@ (POS_REWARDS_PURSE :> URefKey(Addr.rewards_purse, "READ_ADD_WRITE"))
    IN Restrict(all, (IF p.pos = "no_payment_purse" THEN {} ELSE {POS_PAYMENT_PURSE})
                     \cup (IF p.pos = "no_rewards_purse" THEN {} ELSE {POS_REWARDS_PURSE}))

\* The global state under the known root, built from the parameters p:
\*   acct   "ok" | "none"                     the deploying account
\*   thr    the account's deployment threshold
\*   mint   "ok" | "absent" | "dangling"      the account's mint reference
\*   pos    "ok" | "absent" | "dangling" | "no_rewards_purse"
\*          | "no_payment_purse" | "bad_bytes"
\*   purse  [reg, bal]                        the main purse's mint entry
\*   contract  the variant of the account's references to the stored contract
PreState(p) ==
    (IF p.acct = "ok"
     THEN AccountKey(Addr.account) :>
            AccountValue(Addr.account, AccountKnownKeys(p), MainPurse,
                         AssociatedKeys, p.thr)
     ELSE EmptyMap)
    @@ (normalize(URefKey(Addr.stored_contract, "READ")) :>
            ContractValue("wasm", EmptyMap))
    @@ (HashKey(Addr.stored_hash) :> ContractValue("wasm", EmptyMap))
    @@ (IF p.mint = "ok"
        THEN (normalize(URefKey(Addr.mint_pub, "READ")) :>
                KeyValue(URefKey(Addr.mint_inner, "READ_ADD_WRITE")))
             @@ (normalize(URefKey(Addr.mint_inner, "READ")) :>
                ContractValue("wasm", EmptyMap))
        ELSE EmptyMap)
    @@ (IF p.pos \notin {"absent", "dangling"}
        THEN (normalize(URefKey(Addr.pos_pub, "READ")) :>
                KeyValue(URefKey(Addr.pos_inner, "READ_ADD_WRITE")))
             @@ (normalize(URefKey(Addr.pos_inner, "READ")) :>
                ContractValue(IF p.pos = "bad_bytes" THEN "invalid" ELSE "wasm",
                              PosKnownKeys(p)))
        ELSE EmptyMap)
    @@ (IF p.purse.reg
        THEN (LocalKey(Addr.main_purse) :> KeyValue(HashKey(Addr.main_balance)))
             @@ (HashKey(Addr.main_balance) :> U512Value(p.purse.bal))
        ELSE EmptyMap)
    @@ (LocalKey(Addr.payment_purse) :> KeyValue(HashKey(Addr.payment_balance)))
    @@ (HashKey(Addr.payment_balance) :> U512Value(0))
    @@ (LocalKey(Addr.rewards_purse) :> KeyValue(HashKey(Addr.rewards_balance)))
    @@ (HashKey(Addr.rewards_balance) :> U512Value(0))
    @@ (HashKey(Addr.other_balance) :> U512Value(0))

MainPurseStates ==
    {[reg |-> FALSE, bal |-> 0]}
    \cup {[reg |-> TRUE, bal |-> b] :
            b \in {MAX_PAYMENT - 1, MAX_PAYMENT, MAX_PAYMENT + Surplus}}

PreStateParams ==
    [acct : {"ok", "none"}, thr : 1..MaxThreshold,
     mint : {"ok", "absent", "dangling"},
     pos : {"ok", "absent", "dangling", "no_rewards_purse", "no_payment_purse",
            "bad_bytes"},
     purse : MainPurseStates, contract : {"read"}]

\* pre-states for module resolution: a funded account whose references to
\* the stored contract vary
ModulePreStateParams ==
    [acct : {"ok"}, thr : {1}, mint : {"ok"}, pos : {"ok"},
     purse : {[reg |-> TRUE, bal |-> MAX_PAYMENT]},
     contract : {"read", "write", "hash", "none", "write_then_read", "read_then_write"}]

(***************************************************************************)
(* Module resolution                                                       *)
(***************************************************************************)
ModuleBytes(bytes) == [kind |-> "ModuleBytes", bytes |-> bytes]

StoredContractByHash(hash, len) ==
    [kind |-> "StoredContractByHash", hash |-> hash, len |-> len]

StoredContractByName(name) == [kind |-> "StoredContractByName", name |-> name]

StoredContractByURef(uref, len) ==
    [kind |-> "StoredContractByURef", uref |-> uref, len |-> len]

\* Preprocessor::preprocess / Preprocessor::deserialize accept valid bytes
ValidWasm(bytes) == bytes # "invalid"

\* the first known key, in name order, at the address of `normalized`, of
\* whatever variant
FindKnown_ByAddress(known_keys, normalized) ==
    LET names == SelectSeq(NameOrder,
                     LAMBDA n : n \in DOMAIN known_keys
                                /\ known_keys[n].addr = normalized.addr)
    IN IF names = <<>> THEN [found |-> FALSE, key |-> normalized]
       ELSE [found |-> TRUE, key |-> known_keys[Head(names)]]

\* the first known key, in name order, with the normalized form `normalized`
FindKnown(known_keys, normalized) ==
    LET names == SelectSeq(NameOrder,
                     LAMBDA n : n \in DOMAIN known_keys
                                /\ normalize(known_keys[n]) = normalized)
    IN IF names = <<>> THEN [found |-> FALSE, key |-> normalized]
       ELSE [found |-> TRUE, key |-> known_keys[Head(names)]]

\* get_contract at `key`, then deserialize the stored bytes
LoadStored(tc, key) ==
    LET c == get_contract(tc, key)
    IN IF ~c.ok THEN [tc |-> c.tc, ok |-> FALSE, module |-> "", error |-> Err(c.error)]
       ELSE IF ~ValidWasm(c.value.bytes)
       THEN [tc |-> c.tc, ok |-> FALSE, module |-> "", error |-> Err("WasmPreprocessingError")]
       ELSE [tc |-> c.tc, ok |-> TRUE, module |-> c.value.bytes, error |-> NoError]

Rejected(tc, error) == [tc |-> tc, ok |-> FALSE, module |-> "", error |-> error]

\* a size test that accepts every length
WrongSize_Never(len, size) == FALSE

\* `hash_len != HASH_SIZE`, `len != UREF_ADDR_SIZE`
WrongSize(len, size) == len # size

\* EngineState::get_module
get_module(tc, deploy_item, account) ==
    CASE deploy_item.kind = "ModuleBytes" ->
            IF ValidWasm(deploy_item.bytes)
            THEN [tc |-> tc, ok |-> TRUE, module |-> deploy_item.bytes, error |-> NoError]
            ELSE Rejected(tc, Err("WasmPreprocessingError"))
      [] deploy_item.kind = "StoredContractByHash" ->
            IF WrongSize(deploy_item.len, HASH_SIZE)
            THEN Rejected(tc, InvalidHashLength(HASH_SIZE, deploy_item.len))
            ELSE LoadStored(tc, HashKey(deploy_item.hash))
      [] deploy_item.kind = "StoredContractByName" ->
            IF deploy_item.name \notin DOMAIN account.known_keys
            THEN Rejected(tc, [kind |-> "URefNotFound", name |-> deploy_item.name])
            ELSE LET stored_contract_key == account.known_keys[deploy_item.name]
                 IN IF stored_contract_key.tag = "URef" /\ ~is_readable(stored_contract_key)
                    THEN Rejected(tc, ForgedReference(stored_contract_key))
                    ELSE LoadStored(tc, normalize(stored_contract_key))
      [] OTHER ->
            IF WrongSize(deploy_item.len, UREF_ADDR_SIZE)
            THEN Rejected(tc, InvalidHashLength(UREF_ADDR_SIZE, deploy_item.len))
            ELSE LET read_only_uref == URefKey(deploy_item.uref, "READ")
                     normalized_uref == normalize(read_only_uref)
                     known == FindKnown(account.known_keys, normalized_uref)
                 IN IF ~known.found THEN Rejected(tc, KeyNotFound(read_only_uref))
                    ELSE IF known.key.tag # "URef"
                    THEN Rejected(tc, [kind |-> "TypeMismatch", expected |-> "Key::URef"])
                    ELSE IF ~is_readable(known.key)
                    THEN Rejected(tc, ForgedReference(read_only_uref))
                    ELSE LoadStored(tc, normalized_uref)

(***************************************************************************)
(* Executor: what a run of wasm code may do to the tracking copy it is     *)
(* given.  A program is one behaviour of a module: whether it ends         *)
(* normally, the gas it reports, the motes it moves between two purses     *)
(* and the keys it writes.                                                 *)
(***************************************************************************)
MainBalanceKey == HashKey(Addr.main_balance)

PaymentBalanceKey == HashKey(Addr.payment_balance)

RewardsBalanceKey == HashKey(Addr.rewards_balance)

\* the balance of a purse of another account
OtherBalanceKey == HashKey(Addr.other_balance)

RecordAll(tc, keys, tr) ==
    [view |-> ApplyEffects(tc.view, [k \in keys |-> tr]),
     fns |-> [k \in DOMAIN tc.fns \cup keys |->
                IF k \notin keys THEN tc.fns[k]
                ELSE IF k \in DOMAIN tc.fns THEN Combine(tc.fns[k], tr) ELSE tr]]

\* gas costs a run may report under `gas_limit`
SampleCosts(gas_limit) ==
    IF gas_limit = GAS_U64_MAX THEN {0, 1}
    ELSE {c \in {0, 1, gas_limit.gas} : c <= gas_limit.gas}

\* motes a payment program may move from the main purse holding `balance`
PayAmounts(balance) ==
    {a \in {0, CONV_RATE, MAX_PAYMENT - 1, MAX_PAYMENT, MAX_PAYMENT + Surplus} :
        a <= balance}

\* motes a program may transfer from the main purse, as `tc` shows it, to a
\* purse of another account
OutAmounts(tc) ==
    {0} \cup {a \in {Surplus} : /\ MainBalanceKey \in DOMAIN tc.view
                               /\ a <= tc.view[MainBalanceKey].v}

\* the keys code running as `account` may overwrite besides its own: the
\* URefs among its known keys that carry the right to write
WritableKeys(account) ==
    {normalize(account.known_keys[n]) :
        n \in {m \in DOMAIN account.known_keys : is_writeable(account.known_keys[m])}}

\* the sets of keys a run as `account` may write, given those of its own
WriteSets(account, own) == own \cup {{k} : k \in WritableKeys(account)}

\* a URef whose address is in no known-keys map of the account
ForgedURef == URefKey(Addr.forged, "READ_ADD_WRITE")

\* how a run ends: normally, by revert, or at a host call handed a URef the
\* caller does not know
SessionExits == {"Ok", "Revert", "ForgedReference"}

PaymentExits == {"Ok", "Revert"}

ExitError(exit) ==
    IF exit = "ForgedReference" THEN ForgedReference(ForgedURef) ELSE Err(exit)

Programs(exits, costs, pays, outs, writeSets) ==
    [exit : exits, cost : costs, pay : pays, out : outs, writes : writeSets]

\* Executor::exec on `tc`: the run moves prog.pay motes from the main purse
\* to the payment purse and prog.out motes from the main purse to another
\* account's purse, and writes `value` at prog.writes
exec(prog, tc, value) ==
    LET tc0 == IF prog.pay > 0
               THEN tc_add(tc_add(tc, MainBalanceKey, 0 - prog.pay),
                           PaymentBalanceKey, prog.pay)
               ELSE tc
        tc1 == IF prog.out > 0
               THEN tc_add(tc_add(tc0, MainBalanceKey, 0 - prog.out),
                           OtherBalanceKey, prog.out)
               ELSE tc0
        tc2 == RecordAll(tc1, prog.writes, Write(Int32Value(value)))
    IN [tc |-> tc2,
        host_calls |-> <<>>,
        result |-> IF prog.exit = "Ok" THEN Success(effect(tc2), prog.cost)
                   ELSE FailureResult(ExitError(prog.exit), effect(tc2), prog.cost)]

(***************************************************************************)
(* The set_key_thresholds session contract                                 *)
(***************************************************************************)
SET_KEY_THRESHOLDS == "set_key_thresholds"

\* weights the contract is handed as arguments 0 and 1
Weights == 0..2

\* revert(user_code)
Revert(user_code) == [kind |-> "Revert", user_code |-> user_code]

\* a set_action_threshold call the contract made, and whether the host
\* accepted it
HostCall(action_type, weight, accepted) ==
    [fn |-> "set_action_threshold", action_type |-> action_type, weight |-> weight,
     accepted |-> accepted]

\* a contract that goes on to the deployment threshold after a rejected
\* key-management threshold
set_key_thresholds_call_GoesOn(args, host) ==
    LET first == IF args[1] # 0
                 THEN <<HostCall("KeyManagement", args[1], host.key_management)>>
                 ELSE <<>>
        second == IF args[2] # 0
                  THEN <<HostCall("Deployment", args[2], host.deployment)>>
                  ELSE <<>>
    IN [host_calls |-> first \o second,
        ok |-> second = <<>> \/ host.deployment,
        error |-> IF second = <<>> \/ host.deployment THEN NoError ELSE Revert(200)]

\* call(): `host` holds the host's answers to the two set_action_threshold
\* calls
set_key_thresholds_call(args, host) ==
    LET key_management_threshold == args[1]
        deploy_threshold == args[2]
        first == IF key_management_threshold # 0
                 THEN <<HostCall("KeyManagement", key_management_threshold,
                                 host.key_management)>>
                 ELSE <<>>
        reverted == first # <<>> /\ ~host.key_management
        second == IF ~reverted /\ deploy_threshold # 0
                  THEN <<HostCall("Deployment", deploy_threshold, host.deployment)>>
                  ELSE <<>>
    IN [host_calls |-> first \o second,
        ok |-> ~reverted /\ (second = <<>> \/ host.deployment),
        error |-> IF reverted THEN Revert(100)
                  ELSE IF second # <<>> /\ ~host.deployment THEN Revert(200)
                  ELSE NoError]

\* the account after the host call: an accepted call sets the threshold
set_action_threshold(account, call) ==
    IF ~call.accepted THEN account
    ELSE IF call.action_type = "KeyManagement"
    THEN [account EXCEPT !.key_management = call.weight]
    ELSE [account EXCEPT !.deployment = call.weight]

\* the host's answers and the gas cost of a run of the contract
HostAnswers(costs) == [key_management : BOOLEAN, deployment : BOOLEAN, cost : costs]

\* Executor::exec of set_key_thresholds as the account at `base_key`: the
\* accepted calls write the account; a reverted run's result carries the
\* effects recorded before the run
exec_set_key_thresholds(host, tc, base_key, args) ==
    LET run == set_key_thresholds_call(args, host)
        n == Len(run.host_calls)
        account == tc.view[base_key]
        after1 == IF n >= 1 THEN set_action_threshold(account, run.host_calls[1])
                  ELSE account
        after2 == IF n >= 2 THEN set_action_threshold(after1, run.host_calls[2])
                  ELSE after1
        tc1 == IF \E i \in 1..n : run.host_calls[i].accepted
               THEN tc_write(tc, base_key, after2)
               ELSE tc
    IN [tc |-> tc1,
        host_calls |-> run.host_calls,
        result |-> IF run.ok THEN Success(effect(tc1), host.cost)
                   ELSE FailureResult(run.error, effect(tc), host.cost)]

\* Executor::exec_direct of the PoS contract's finalize_payment(amount, account):
\* moves `amount` from the payment purse to the rewards purse and refunds the
\* rest of the payment purse to the account's main purse
exec_finalize(prog, tc, amount) ==
    LET held == get_purse_balance(tc, PaymentBalanceKey)
        fits == prog.ok /\ held.ok /\ amount <= held.balance
        tc1 == tc_add(held.tc, PaymentBalanceKey, 0 - held.balance)
        tc2 == tc_add(tc1, RewardsBalanceKey, amount)
        tc3 == tc_add(tc2, MainBalanceKey, held.balance - amount)
    IN IF fits THEN [tc |-> tc3, result |-> Success(effect(tc3), prog.cost)]
       ELSE [tc |-> held.tc,
             result |-> FailureResult(Err("Revert"), effect(held.tc), prog.cost)]

(***************************************************************************)
(* ExecutionResultBuilder                                                  *)
(***************************************************************************)
NoResult == [tag |-> "None", error |-> NoError, effect |-> EmptyMap, cost |-> 0]

NewBuilder == [payment |-> NoResult, session |-> NoResult, finalize |-> NoResult]

\* ExecutionResultBuilder::total_cost
total_cost(b) == b.payment.cost + b.session.cost

\* ExecutionResultBuilder::check_forced_transfer
check_forced_transfer(b, max_payment_cost, account_main_purse_balance, payment_purse_balance, account_main_purse_balance_key, rewards_purse_balance_key) ==
    LET forced == \/ is_failure(b.payment)
                  \/ payment_purse_balance < Motes_from_gas(b.payment.cost, CONV_RATE)
                  \/ payment_purse_balance < max_payment_cost
        transfer == (account_main_purse_balance_key :> AddUInt512(0 - max_payment_cost))
                    @@ (rewards_purse_balance_key :> AddUInt512(max_payment_cost))
    IN [some |-> forced,
        result |-> FailureResult(Err("InsufficientPaymentError"), transfer,
                                 max_payment_cost)]

\* ExecutionResultBuilder::build
build(b) ==
    IF is_failure(b.finalize)
    THEN precondition_failure(Err("FinalizationError"))
    ELSE LET kept == IF is_failure(b.session) THEN EmptyMap ELSE b.session.effect
             eff == MergeEffects(MergeEffects(b.payment.effect, kept), b.finalize.effect)
         IN IF is_failure(b.session)
            THEN FailureResult(b.session.error, eff, b.payment.cost)
            ELSE Success(eff, total_cost(b))

(***************************************************************************)
(* EngineState::deploy                                                     *)
(***************************************************************************)
VARIABLES
    config,           \* EngineConfig: [use_payment_code]
    state,            \* the state provider: [roots, failed, protocol_data, commits]
    deploy_in,        \* the arguments of deploy
    pc,               \* the position of deploy
    tracking_copy,    \* the root tracking copy of the deploy
    session_tc,       \* the fork session runs on
    finalization_tc,  \* the fork finalize runs on
    loc,              \* the locals of deploy
    builder,          \* execution_result_builder
    calls,            \* the executor calls made, in order
    resolved,         \* the deploy items handed to get_module, in order
    ret               \* what deploy returned

vars == <<config, state, deploy_in, pc, tracking_copy, session_tc, finalization_tc,
          loc, builder, calls, resolved, ret>>

NoKey == MkKey("None", 0, "NONE")

\* a state provider that knows `roots`, before any call: each root's global
\* state, whether the last checkout failed, the protocol data put per
\* protocol version, and the commits made with their outcome
NewProvider(roots) ==
    [roots |-> roots, failed |-> FALSE, protocol_data |-> EmptyMap, commits |-> <<>>]

NoTc == NewTrackingCopy(EmptyMap)

KnownRoot == 1

SessionItems == {ModuleBytes("wasm"), ModuleBytes("invalid")}

PaymentItems == {ModuleBytes("wasm"), ModuleBytes("invalid")}

\* the address argument: the account's key, or a key that is no account
Addresses == {AccountKey(Addr.account), HashKey(Addr.account)}

LocInit ==
    [account |-> NotFound, session_module |-> "", mint_inner_uref |-> NoKey,
     proof_of_stake_public_uref |-> NoKey,
     proof_of_stake_info |-> [inner_key |-> NoKey, contract |-> NotFound],
     rewards_purse_balance_key |-> NoKey,
     account_main_purse_balance_key |-> NoKey,
     account_main_purse_balance |-> 0,
     payment_result |-> NoResult,
     payment_purse_balance |-> 0,
     post_session_rc |-> NoTc,
     session_result |-> NoResult,
     finalize_result |-> NoResult,
     host_calls |-> <<>>]

Init ==
    /\ config \in [use_payment_code : BOOLEAN]
    /\ \E p \in PreStateParams :
          state = NewProvider(KnownRoot :> PreState(p))
    /\ deploy_in \in [session : SessionItems, payment : PaymentItems,
                      address : Addresses, authorization_keys : AuthKeySets,
                      prestate_hash : {KnownRoot, KnownRoot + 1}]
    /\ pc = "checkout"
    /\ tracking_copy = NoTc
    /\ session_tc = NoTc
    /\ finalization_tc = NoTc
    /\ loc = LocInit
    /\ builder = NewBuilder
    /\ calls = <<>>
    /\ resolved = <<>>
    /\ ret = [kind |-> "None"]

\* lengths of the byte string of a stored-contract item
Lengths == {HASH_SIZE - 1, HASH_SIZE, HASH_SIZE + 1}

\* stored-contract items: by hash (a stored contract, nothing stored), by
\* name (bound, not bound), by URef (the stored contract's address, the
\* mint's public URef, an address no known key has)
StoredItems ==
    {StoredContractByHash(h, n) : h \in {Addr.stored_hash, Addr.forged}, n \in Lengths}
    \cup {StoredContractByName(n) : n \in {"contract", "contract_b"}}
    \cup {StoredContractByURef(a, n) :
            a \in {Addr.stored_contract, Addr.mint_pub, Addr.forged}, n \in Lengths}

\* deploys that name stored contracts, by an account whose keys authorize it
ModuleInit ==
    /\ config \in [use_payment_code : BOOLEAN]
    /\ \E p \in ModulePreStateParams :
          state = NewProvider(KnownRoot :> PreState(p))
    /\ deploy_in \in [session : {ModuleBytes("wasm")} \cup StoredItems,
                      payment : {ModuleBytes("wasm"),
                                 StoredContractByHash(Addr.stored_hash, HASH_SIZE - 1),
                                 StoredContractByURef(Addr.stored_contract, HASH_SIZE + 1)},
                      address : {AccountKey(Addr.account)},
                      authorization_keys : {{1}},
                      prestate_hash : {KnownRoot}]
    /\ pc = "checkout"
    /\ tracking_copy = NoTc
    /\ session_tc = NoTc
    /\ finalization_tc = NoTc
    /\ loc = LocInit
    /\ builder = NewBuilder
    /\ calls = <<>>
    /\ resolved = <<>>
    /\ ret = [kind |-> "None"]

\* return Ok(result) from the return statement `via`
ReturnOk(via, result) ==
    /\ pc' = "done"
    /\ ret' = [kind |-> "Ok", via |-> via, result |-> result]

\* a failure returned with the transforms recorded so far
ReturnPreconditionFailure_WithEffects(error) ==
    ReturnOk("precondition_failure", FailureResult(error, effect(tracking_copy), 0))

ReturnPreconditionFailure(error) ==
    ReturnOk("precondition_failure", precondition_failure(error))

\* a checkout outcome with None and Err exchanged
CheckoutOutcome_Swapped(fault, known) ==
    IF fault THEN "None" ELSE IF known THEN "Some" ELSE "Err"

\* EngineState::tracking_copy as deploy matches on it; `fault` is the state
\* provider failing the checkout
CheckoutOutcome(fault, known) ==
    IF fault THEN "Err" ELSE IF known THEN "Some" ELSE "None"

\* a checkout that registers the root it is asked for
CheckedOutRoots_Registers(roots, prestate_hash) ==
    IF prestate_hash \in DOMAIN roots THEN roots
    ELSE (prestate_hash :> EmptyMap) @@ roots

\* the provider's roots after `self.state.checkout(prestate_hash)`, which only
\* reads
CheckedOutRoots(roots, prestate_hash) == roots

\* state.failed records that the provider failed the checkout
Checkout ==
    /\ pc = "checkout"
    /\ \E fault \in BOOLEAN :
       LET outcome == CheckoutOutcome(fault,
                                      deploy_in.prestate_hash \in DOMAIN state.roots)
       IN /\ state' = [state EXCEPT
                           !.roots = CheckedOutRoots(state.roots, deploy_in.prestate_hash),
                           !.failed = fault]
          /\ CASE outcome = "Err" ->
                 /\ ReturnPreconditionFailure(Err("StorageError"))
                 /\ UNCHANGED tracking_copy
            [] outcome = "None" ->
                 /\ pc' = "done"
                 /\ ret' = [kind |-> "Err", error |-> "RootNotFound",
                            root |-> deploy_in.prestate_hash]
                 /\ UNCHANGED tracking_copy
            [] OTHER ->
                 /\ tracking_copy' = IF deploy_in.prestate_hash \in DOMAIN state.roots
                                     THEN NewTrackingCopy(state.roots[deploy_in.prestate_hash])
                                     ELSE NoTc
                 /\ pc' = "authorize"
                 /\ UNCHANGED ret
    /\ UNCHANGED <<config, deploy_in, session_tc, finalization_tc, loc,
                   builder, calls, resolved>>

\* the authorization checks without the test for an empty key set
AuthorizationCheck_NoEmptyTest(address, account, authorization_keys) ==
    IF address.tag # "Account" THEN Err("AuthorizationError")
    ELSE IF ~account.ok THEN Err("AuthorizationError")
    ELSE IF ~can_authorize(account.value, authorization_keys)
    THEN Err("AuthorizationError")
    ELSE IF ~can_deploy_with(account.value, authorization_keys)
    THEN Err("DeploymentAuthorizationFailure")
    ELSE NoError

\* the authorization checks without the test of the deployment threshold
AuthorizationCheck_NoWeightTest(address, account, authorization_keys) ==
    IF address.tag # "Account" THEN Err("AuthorizationError")
    ELSE IF ~account.ok THEN Err("AuthorizationError")
    ELSE IF authorization_keys = {} \/ ~can_authorize(account.value, authorization_keys)
    THEN Err("AuthorizationError")
    ELSE NoError

\* the authorization checks with the deployment threshold tested first
AuthorizationCheck_WeightFirst(address, account, authorization_keys) ==
    IF address.tag # "Account" THEN Err("AuthorizationError")
    ELSE IF ~account.ok THEN Err("AuthorizationError")
    ELSE IF ~can_deploy_with(account.value, authorization_keys)
    THEN Err("DeploymentAuthorizationFailure")
    ELSE IF authorization_keys = {} \/ ~can_authorize(account.value, authorization_keys)
    THEN Err("AuthorizationError")
    ELSE NoError

\* the checks of the account and of the authorization keys, in order:
\* the error of the first that fails, or NoError
AuthorizationCheck(address, account, authorization_keys) ==
    IF address.tag # "Account" THEN Err("AuthorizationError")
    ELSE IF ~account.ok THEN Err("AuthorizationError")
    ELSE IF authorization_keys = {} \/ ~can_authorize(account.value, authorization_keys)
    THEN Err("AuthorizationError")
    ELSE IF ~can_deploy_with(account.value, authorization_keys)
    THEN Err("DeploymentAuthorizationFailure")
    ELSE NoError

Authorize ==
    /\ pc = "authorize"
    /\ LET isAccount == deploy_in.address.tag = "Account"
           account == IF isAccount THEN get_account(tracking_copy, deploy_in.address.addr)
                      ELSE [tc |-> tracking_copy, ok |-> FALSE, value |-> NotFound,
                            error |-> "None"]
           error == AuthorizationCheck(deploy_in.address, account,
                                       deploy_in.authorization_keys)
       IN /\ tracking_copy' = account.tc
          /\ IF error # NoError
             THEN ReturnPreconditionFailure(error) /\ UNCHANGED loc
             ELSE /\ loc' = [loc EXCEPT !.account = account.value]
                  /\ pc' = "resolve_session"
                  /\ UNCHANGED ret
    /\ UNCHANGED <<config, state, deploy_in, session_tc, finalization_tc, builder,
                   calls, resolved>>

\* session resolution going on to the mint lookup whatever the configuration
ResolveSession_AlwaysPays ==
    /\ pc = "resolve_session"
    /\ LET m == get_module(tracking_copy, deploy_in.session, loc.account)
       IN /\ tracking_copy' = m.tc
          /\ resolved' = Append(resolved, deploy_in.session)
          /\ IF ~m.ok
             THEN ReturnPreconditionFailure(m.error) /\ UNCHANGED loc
             ELSE /\ loc' = [loc EXCEPT !.session_module = m.module]
                  /\ pc' = "mint"
                  /\ UNCHANGED ret
    /\ UNCHANGED <<config, state, deploy_in, session_tc, finalization_tc, builder, calls>>

ResolveSession ==
    /\ pc = "resolve_session"
    /\ LET m == get_module(tracking_copy, deploy_in.session, loc.account)
       IN /\ tracking_copy' = m.tc
          /\ resolved' = Append(resolved, deploy_in.session)
          /\ IF ~m.ok
             THEN ReturnPreconditionFailure(m.error) /\ UNCHANGED loc
             ELSE /\ loc' = [loc EXCEPT !.session_module = m.module]
                  /\ pc' = IF config.use_payment_code THEN "mint"
                           ELSE "session_without_payment"
                  /\ UNCHANGED ret
    /\ UNCHANGED <<config, state, deploy_in, session_tc, finalization_tc, builder, calls>>

\* `session.args()`
item_args(deploy_item) ==
    IF "args" \in DOMAIN deploy_item THEN deploy_item.args ELSE <<>>

\* the runs the session module may make: those of the set_key_thresholds
\* contract when it is the module, any program otherwise
SessionPrograms(module, costs, tc, account) ==
    IF module = SET_KEY_THRESHOLDS THEN HostAnswers(costs)
    ELSE Programs(SessionExits, costs, {0}, OutAmounts(tc),
                  WriteSets(account, SUBSET UserKeys))

\* executor.exec(session_module, session.args(), address, ..)
exec_session(module, prog, tc, base_key, session_args) ==
    IF module = SET_KEY_THRESHOLDS
    THEN exec_set_key_thresholds(prog, tc, base_key, session_args)
    ELSE exec(prog, tc, 2)

\* an executor call as the executor sees it
Call(entry, phase, gas_limit, base_key, account_addr, account_known_keys, args, tc) ==
    [entry |-> entry, phase |-> phase, gas_limit |-> gas_limit, base_key |-> base_key,
     account_addr |-> account_addr, account_known_keys |-> account_known_keys,
     args |-> args, tc |-> tc]

SessionWithoutPayment ==
    /\ pc = "session_without_payment"
    /\ LET gas_limit == GasLimit(Gas_from_motes(DEFAULT_SESSION_MOTES, CONV_RATE))
       IN \E prog \in SessionPrograms(loc.session_module, SampleCosts(gas_limit),
                                        tracking_copy, loc.account) :
            LET run == exec_session(loc.session_module, prog, tracking_copy,
                                    deploy_in.address, item_args(deploy_in.session))
            IN /\ calls' = Append(calls,
                       Call("exec", "Session", gas_limit, deploy_in.address,
                            loc.account.addr, loc.account.known_keys,
                            item_args(deploy_in.session), tracking_copy))
               /\ tracking_copy' = run.tc
               /\ loc' = [loc EXCEPT !.host_calls = run.host_calls]
               /\ ReturnOk("session_without_payment", run.result)
    /\ UNCHANGED <<config, state, deploy_in, session_tc, finalization_tc,
                   builder, resolved>>

\* a missing name passed on as if it had been found
SystemContractURef_Lenient(known_keys, name) ==
    [found |-> TRUE,
     key |-> IF name \in DOMAIN known_keys THEN normalize(known_keys[name]) ELSE NoKey]

\* a named key of a known-keys map, normalized: the public URef of a system
\* contract
SystemContractURef(known_keys, name) ==
    IF name \in DOMAIN known_keys
    THEN [found |-> TRUE, key |-> normalize(known_keys[name])]
    ELSE [found |-> FALSE, key |-> NoKey]

FindMint ==
    /\ pc = "mint"
    /\ LET mint_public_uref == SystemContractURef(loc.account.known_keys, MINT_NAME)
           mint_info == get_system_contract_info(tracking_copy, mint_public_uref.key)
       IN IF ~mint_public_uref.found
          THEN /\ ReturnPreconditionFailure(MissingSystemContractError(MINT_NAME))
               /\ UNCHANGED <<tracking_copy, loc>>
          ELSE /\ tracking_copy' = mint_info.tc
               /\ IF ~mint_info.ok
                  THEN ReturnPreconditionFailure(Err(mint_info.error)) /\ UNCHANGED loc
                  ELSE /\ loc' = [loc EXCEPT !.mint_inner_uref = mint_info.inner_key]
                       /\ pc' = "proof_of_stake"
                       /\ UNCHANGED ret
    /\ UNCHANGED <<config, state, deploy_in, session_tc, finalization_tc, builder,
                   calls, resolved>>

FindProofOfStake ==
    /\ pc = "proof_of_stake"
    /\ LET public_uref == SystemContractURef(loc.account.known_keys, POS_NAME)
           info == get_system_contract_info(tracking_copy, public_uref.key)
       IN IF ~public_uref.found
          THEN /\ ReturnPreconditionFailure(MissingSystemContractError(POS_NAME))
               /\ UNCHANGED <<tracking_copy, loc>>
          ELSE /\ tracking_copy' = info.tc
               /\ IF ~info.ok
                  THEN ReturnPreconditionFailure(Err(info.error)) /\ UNCHANGED loc
                  ELSE /\ loc' = [loc EXCEPT
                             !.proof_of_stake_public_uref = public_uref.key,
                             !.proof_of_stake_info =
                                 [inner_key |-> info.inner_key, contract |-> info.contract]]
                       /\ pc' = "rewards_purse"
                       /\ UNCHANGED ret
    /\ UNCHANGED <<config, state, deploy_in, session_tc, finalization_tc, builder,
                   calls, resolved>>

\* the balance key of the purse the PoS contract knows as `name`
PosPurseBalanceKey(tc, proof_of_stake_info, mint_inner_uref, name) ==
    IF name \notin DOMAIN proof_of_stake_info.contract.known_keys
    THEN [tc |-> tc, ok |-> FALSE, key |-> NoKey, error |-> "DeployError"]
    ELSE get_purse_balance_key(tc, mint_inner_uref,
                               proof_of_stake_info.contract.known_keys[name])

FindRewardsPurse ==
    /\ pc = "rewards_purse"
    /\ LET bk == PosPurseBalanceKey(tracking_copy, loc.proof_of_stake_info,
                                    loc.mint_inner_uref, POS_REWARDS_PURSE)
       IN /\ tracking_copy' = bk.tc
          /\ IF ~bk.ok
             THEN ReturnPreconditionFailure(Err(bk.error)) /\ UNCHANGED loc
             ELSE /\ loc' = [loc EXCEPT !.rewards_purse_balance_key = bk.key]
                  /\ pc' = "main_purse"
                  /\ UNCHANGED ret
    /\ UNCHANGED <<config, state, deploy_in, session_tc, finalization_tc, builder,
                   calls, resolved>>

FindMainPurse ==
    /\ pc = "main_purse"
    /\ LET bk == get_purse_balance_key(tracking_copy, loc.mint_inner_uref,
                                       loc.account.main_purse)
       IN /\ tracking_copy' = bk.tc
          /\ IF ~bk.ok
             THEN ReturnPreconditionFailure(Err(bk.error)) /\ UNCHANGED loc
             ELSE /\ loc' = [loc EXCEPT !.account_main_purse_balance_key = bk.key]
                  /\ pc' = "minimum_balance"
                  /\ UNCHANGED ret
    /\ UNCHANGED <<config, state, deploy_in, session_tc, finalization_tc, builder,
                   calls, resolved>>

\* the minimum-balance test with a balance equal to the maximum rejected
InsufficientBalance_Inclusive(account_main_purse_balance, max_payment_cost) ==
    account_main_purse_balance <= max_payment_cost

\* the minimum-balance test with the maximum payment taken in gas, not motes
InsufficientBalance_InGas(account_main_purse_balance, max_payment_cost) ==
    account_main_purse_balance < Gas_from_motes(max_payment_cost, CONV_RATE)

\* the minimum-balance test on the main purse
InsufficientBalance(account_main_purse_balance, max_payment_cost) ==
    account_main_purse_balance < max_payment_cost

CheckMinimumBalance ==
    /\ pc = "minimum_balance"
    /\ LET bal == get_purse_balance(tracking_copy, loc.account_main_purse_balance_key)
       IN /\ tracking_copy' = bal.tc
          /\ IF ~bal.ok
             THEN ReturnPreconditionFailure(Err(bal.error)) /\ UNCHANGED loc
             ELSE /\ loc' = [loc EXCEPT !.account_main_purse_balance = bal.balance]
                  /\ IF InsufficientBalance(bal.balance, MAX_PAYMENT)
                     THEN ReturnPreconditionFailure(Err("InsufficientPaymentError"))
                     ELSE pc' = "payment" /\ UNCHANGED ret
    /\ UNCHANGED <<config, state, deploy_in, session_tc, finalization_tc, builder,
                   calls, resolved>>

\* the payment code's gas limit
PayGasLimit == GasLimit(Gas_from_motes(MAX_PAYMENT, CONV_RATE))

ExecPayment ==
    /\ pc = "payment"
    /\ LET m == get_module(tracking_copy, deploy_in.payment, loc.account)
       IN /\ resolved' = Append(resolved, deploy_in.payment)
          /\ IF ~m.ok
             THEN /\ tracking_copy' = m.tc
                  /\ ReturnPreconditionFailure(m.error)
                  /\ UNCHANGED <<loc, calls>>
             ELSE \E prog \in Programs(PaymentExits, SampleCosts(PayGasLimit),
                                       PayAmounts(loc.account_main_purse_balance),
                                       {0},
                                       WriteSets(loc.account,
                                                 {{}, {HashKey(Addr.user + 1)}})) :
                    LET run == exec(prog, m.tc, 1)
                    IN /\ calls' = Append(calls,
                               Call("exec", "Payment", PayGasLimit, deploy_in.address,
                                    loc.account.addr, loc.account.known_keys, <<>>, m.tc))
                       /\ tracking_copy' = run.tc
                       /\ loc' = [loc EXCEPT !.payment_result = run.result]
                       /\ pc' = "payment_purse"
                       /\ UNCHANGED ret
    /\ UNCHANGED <<config, state, deploy_in, session_tc, finalization_tc, builder>>

ReadPaymentPurse ==
    /\ pc = "payment_purse"
    /\ LET bk == PosPurseBalanceKey(tracking_copy, loc.proof_of_stake_info,
                                    loc.mint_inner_uref, POS_PAYMENT_PURSE)
           bal == get_purse_balance(bk.tc, bk.key)
       IN IF ~bk.ok
          THEN /\ tracking_copy' = bk.tc
               /\ ReturnPreconditionFailure(Err(bk.error))
               /\ UNCHANGED loc
          ELSE /\ tracking_copy' = bal.tc
               /\ IF ~bal.ok
                  THEN ReturnPreconditionFailure(Err(bal.error)) /\ UNCHANGED loc
                  ELSE /\ loc' = [loc EXCEPT !.payment_purse_balance = bal.balance]
                       /\ pc' = "forced_transfer"
                       /\ UNCHANGED ret
    /\ UNCHANGED <<config, state, deploy_in, session_tc, finalization_tc, builder,
                   calls, resolved>>

\* the forced-transfer check handed the main purse's balance for the payment
\* purse's
ForcedTransfer_WrongPurse(b, l) ==
    check_forced_transfer(b, MAX_PAYMENT, l.account_main_purse_balance,
                          l.account_main_purse_balance, l.account_main_purse_balance_key,
                          l.rewards_purse_balance_key)

\* the forced-transfer check as deploy calls it
ForcedTransfer(b, l) ==
    check_forced_transfer(b, MAX_PAYMENT, l.account_main_purse_balance,
                          l.payment_purse_balance, l.account_main_purse_balance_key,
                          l.rewards_purse_balance_key)

\* the forced-transfer result computed and not returned
ReturnsForcedTransfer_Never(forced) == FALSE

\* `if let Some(failure) = ... { return Ok(failure) }`
ReturnsForcedTransfer(forced) == forced.some

CheckForcedTransfer ==
    /\ pc = "forced_transfer"
    /\ builder' = [builder EXCEPT !.payment = loc.payment_result]
    /\ LET forced == ForcedTransfer(builder', loc)
       IN IF ReturnsForcedTransfer(forced)
          THEN ReturnOk("forced_transfer", forced.result)
          ELSE pc' = "session" /\ UNCHANGED ret
    /\ UNCHANGED <<config, state, deploy_in, tracking_copy, session_tc,
                   finalization_tc, loc, calls, resolved>>

\* the session gas limit without the payment cost taken off
SessionGasLimit_WholePurse(payment_purse_balance, payment_result_cost) ==
    Gas_from_motes(payment_purse_balance, CONV_RATE)

\* the session gas limit taken in motes: the balance less the payment cost
SessionGasLimit_InMotes(payment_purse_balance, payment_result_cost) ==
    payment_purse_balance - payment_result_cost

\* session_gas_limit: (payment purse balance / conv_rate) - payment cost
SessionGasLimit(payment_purse_balance, payment_result_cost) ==
    Gas_from_motes(payment_purse_balance, CONV_RATE) - payment_result_cost

\* finalize forked from the session's tracking copy whatever its result
PostSessionTc_AlwaysSession(session_result, post_payment_tc, stc) == stc

\* post_session_rc: the tracking copy finalize is forked from
PostSessionTc(session_result, post_payment_tc, stc) ==
    IF is_failure(session_result) THEN fork(post_payment_tc) ELSE stc

\* the payment result handed to the builder in place of the session's
SetSessionResult_AsPayment(b, session_result) == [b EXCEPT !.session = b.payment]

\* execution_result_builder.set_session_execution_result(session_result)
SetSessionResult(b, session_result) == [b EXCEPT !.session = session_result]

ExecSession ==
    /\ pc = "session"
    /\ LET limit == SessionGasLimit(loc.payment_purse_balance, loc.payment_result.cost)
           forked == fork(tracking_copy)
       IN IF limit < 0
          THEN /\ pc' = "done"
               /\ ret' = [kind |-> "Panic", at |-> "session_gas_limit"]
               /\ UNCHANGED <<session_tc, loc, builder, calls>>
          ELSE \E prog \in SessionPrograms(loc.session_module,
                                           SampleCosts(GasLimit(limit)), forked,
                                           loc.account) :
                 LET run == exec_session(loc.session_module, prog, forked,
                                         deploy_in.address, item_args(deploy_in.session))
                 IN /\ calls' = Append(calls,
                            Call("exec", "Session", GasLimit(limit), deploy_in.address,
                                 loc.account.addr, loc.account.known_keys,
                                 item_args(deploy_in.session), forked))
                    /\ session_tc' = run.tc
                    /\ loc' = [loc EXCEPT
                                  !.post_session_rc =
                                      PostSessionTc(run.result, tracking_copy, run.tc),
                                  !.session_result = run.result,
                                  !.host_calls = run.host_calls]
                    /\ builder' = SetSessionResult(builder, run.result)
                    /\ pc' = "finalize"
                    /\ UNCHANGED ret
    /\ UNCHANGED <<config, state, deploy_in, tracking_copy, finalization_tc, resolved>>

\* the account finalization runs as
SystemAccount ==
    AccountValue(SYSTEM_ACCOUNT_ADDR, EmptyMap,
                 URefKey(SYSTEM_ACCOUNT_ADDR, "READ_ADD_WRITE"), EmptyMap, 1)

\* the maximum payment charged at finalize, whatever was spent
FinalizeCostMotes_MaxPayment(b) == MAX_PAYMENT

\* nothing paid at finalize
FinalizeCostMotes_Zero(b) == 0

\* the finalize amount left in gas
FinalizeCostMotes_InGas(b) == total_cost(b)

\* the finalize amount without the session's cost
FinalizeCostMotes_PaymentOnly(b) == Motes_from_gas(b.payment.cost, CONV_RATE)

\* finalize_cost_motes: the total gas cost in motes
FinalizeCostMotes(b) == Motes_from_gas(total_cost(b), CONV_RATE)

\* the session result handed to the builder in place of finalize's
SetFinalizeResult_AsSession(b, finalize_result) == [b EXCEPT !.finalize = b.session]

\* execution_result_builder.set_finalize_execution_result(finalize_result)
SetFinalizeResult(b, finalize_result) == [b EXCEPT !.finalize = finalize_result]

\* a PoS module that never deserializes
PosModuleOk_Never(proof_of_stake_info) == FALSE

\* preprocessor.deserialize(&proof_of_stake_info.module_bytes()) is Ok
PosModuleOk(proof_of_stake_info) == ValidWasm(proof_of_stake_info.contract.bytes)

ExecFinalize ==
    /\ pc = "finalize"
    /\ LET forked == fork(loc.post_session_rc)
           info == get_system_contract_info(forked, loc.proof_of_stake_public_uref)
           amount == FinalizeCostMotes(builder)
       IN IF ~PosModuleOk(loc.proof_of_stake_info)
          THEN /\ ReturnPreconditionFailure(Err("WasmPreprocessingError"))
               /\ UNCHANGED <<finalization_tc, loc, builder, calls>>
          ELSE IF ~info.ok
          THEN /\ pc' = "done"
               /\ ret' = [kind |-> "Panic", at |-> "PoS must be found"]
               /\ UNCHANGED <<finalization_tc, loc, builder, calls>>
          ELSE \E prog \in [ok : BOOLEAN, cost : SampleCosts(GAS_U64_MAX)] :
                 LET run == exec_finalize(prog, info.tc, amount)
                 IN /\ calls' = Append(calls,
                            Call("exec_direct", "FinalizePayment", GAS_U64_MAX,
                                 loc.proof_of_stake_info.inner_key,
                                 SystemAccount.addr, SystemAccount.known_keys,
                                 <<"finalize_payment", amount, deploy_in.address.addr>>,
                                 info.tc))
                    /\ finalization_tc' = run.tc
                    /\ loc' = [loc EXCEPT !.finalize_result = run.result]
                    /\ builder' = SetFinalizeResult(builder, run.result)
                    /\ pc' = "build"
                    /\ UNCHANGED ret
    /\ UNCHANGED <<config, state, deploy_in, tracking_copy, session_tc, resolved>>

\* build returns Ok only if the builder holds all three results
BuilderInitialized(b) ==
    b.payment # NoResult /\ b.session # NoResult /\ b.finalize # NoResult

Build ==
    /\ pc = "build"
    /\ IF BuilderInitialized(builder)
       THEN ReturnOk("build", build(builder))
       ELSE /\ pc' = "done"
            /\ ret' = [kind |-> "Panic",
                       at |-> "ExecutionResultBuilder not initialized properly"]
    /\ UNCHANGED <<config, state, deploy_in, tracking_copy, session_tc,
                   finalization_tc, loc, builder, calls, resolved>>

(***************************************************************************)
(* EngineState::apply_effect                                               *)
(***************************************************************************)
\* the root of the state a commit produces
NewRoot == KnownRoot + 2

\* StateProvider::commit: the state under `prestate_hash` with the transforms
\* applied is stored under its own root; equal states have equal roots
commit(s, prestate_hash, effects) ==
    LET post == ApplyEffects(s.roots[prestate_hash], effects)
        made == Append(s.commits, [prestate_hash |-> prestate_hash,
                                   effects |-> effects, ok |-> TRUE])
    IN IF \E r \in DOMAIN s.roots : s.roots[r] = post
       THEN [s EXCEPT !.commits = made]
       ELSE [s EXCEPT !.roots = (NewRoot :> post) @@ s.roots, !.commits = made]

apply_effect(s, prestate_hash, effects) == commit(s, prestate_hash, effects)

\* the caller commits the effects of the result deploy returned
ApplyEffect ==
    /\ pc = "done"
    /\ ret.kind = "Ok"
    /\ deploy_in.prestate_hash \in DOMAIN state.roots
    /\ state' = apply_effect(state, deploy_in.prestate_hash, ret.result.effect)
    /\ pc' = "committed"
    /\ UNCHANGED <<config, deploy_in, tracking_copy, session_tc, finalization_tc,
                   loc, builder, calls, resolved, ret>>

Next ==
    \/ Checkout
    \/ Authorize
    \/ ResolveSession
    \/ SessionWithoutPayment
    \/ FindMint
    \/ FindProofOfStake
    \/ FindRewardsPurse
    \/ FindMainPurse
    \/ CheckMinimumBalance
    \/ ExecPayment
    \/ ReadPaymentPurse
    \/ CheckForcedTransfer
    \/ ExecSession
    \/ ExecFinalize
    \/ Build
    \/ ApplyEffect

Spec == Init /\ [][Next]_vars

\* deploys whose items name stored contracts
ModuleSpec == ModuleInit /\ [][Next]_vars

\* the threshold contract with its two arguments as module bytes
SetKeyThresholdsItem(key_management_threshold, deploy_threshold) ==
    [kind |-> "ModuleBytes", bytes |-> SET_KEY_THRESHOLDS,
     args |-> <<key_management_threshold, deploy_threshold>>]

\* deploys of set_key_thresholds by a funded account, authorized by one key
\* (weight 1) or two (weight 3)
ThresholdInit ==
    /\ config \in [use_payment_code : BOOLEAN]
    /\ \E p \in ModulePreStateParams :
          /\ p.contract = "read"
          /\ state = NewProvider(KnownRoot :> PreState(p))
    /\ deploy_in \in [session : {SetKeyThresholdsItem(k, d) : k \in Weights, d \in Weights},
                      payment : {ModuleBytes("wasm")},
                      address : {AccountKey(Addr.account)},
                      authorization_keys : {{1}, {1, 2}},
                      prestate_hash : {KnownRoot}]
    /\ pc = "checkout"
    /\ tracking_copy = NoTc
    /\ session_tc = NoTc
    /\ finalization_tc = NoTc
    /\ loc = LocInit
    /\ builder = NewBuilder
    /\ calls = <<>>
    /\ resolved = <<>>
    /\ ret = [kind |-> "None"]

ThresholdSpec == ThresholdInit /\ [][Next]_vars

(***************************************************************************)
(* EngineState::commit_genesis_with_chainspec                              *)
(*                                                                         *)
(* The variables are those of deploy: deploy_in holds the GenesisConfig,   *)
(* loc the locals of the function, calls the better_exec calls.            *)
(***************************************************************************)
\* accounts a chainspec may list, in any order and more than once
MaxAccounts == 2

MINT_METHOD_NAME == "mint"

\* self.state.empty_root()
EmptyRoot == 0

GenesisAccount(public_key, balance, bonded_amount) ==
    [public_key |-> public_key, balance |-> balance, bonded_amount |-> bonded_amount]

\* the accounts chainspecs are drawn from: two validators-to-be or plain
\* accounts, and an account at the system account's address
ChainspecAccounts ==
    {GenesisAccount(1, 5, 3), GenesisAccount(1, 0, 0), GenesisAccount(2, 7, 0),
     GenesisAccount(SYSTEM_ACCOUNT_ADDR, 9, 0)}

GenesisConfigs ==
    [protocol_version : {1}, wasm_costs : {"wasm_costs"},
     mint_installer_bytes : {"wasm", "invalid"},
     proof_of_stake_installer_bytes : {"wasm", "invalid"},
     accounts : UNION {[1..n -> ChainspecAccounts] : n \in 0..MaxAccounts}]

\* GenesisConfig::get_bonded_validators: the accounts with a non-zero bonded
\* amount; collected into a map, the last entry of a public key stays
get_bonded_validators(genesis_config) ==
    LET bonded == {i \in DOMAIN genesis_config.accounts :
                      genesis_config.accounts[i].bonded_amount # 0}
        last(pk) == CHOOSE i \in bonded :
                      /\ genesis_config.accounts[i].public_key = pk
                      /\ \A j \in bonded :
                            genesis_config.accounts[j].public_key = pk => j <= i
    IN [pk \in {genesis_config.accounts[i].public_key : i \in bonded} |->
            genesis_config.accounts[last(pk)].bonded_amount]

\* Account::create: the account's own key is its one associated key
Account_create(addr, known_keys, purse_id) ==
    AccountValue(addr, known_keys, purse_id, addr :> 1, 1)

\* the "virtual system account": no known keys, the default URef as purse
virtual_system_account ==
    Account_create(SYSTEM_ACCOUNT_ADDR, EmptyMap, URefKey(0, "READ_ADD_WRITE"))

\* what a run of an installer may do: store a contract under the URef it
\* returns (of valid or invalid bytes), return a URef it stored nothing
\* under, return a value that is no URef, or fail
InstallerOutcomes == {"stored", "stored_invalid", "not_stored", "not_uref", "revert"}

\* what a call of the mint's "mint" may do: create a purse and return its
\* URef, return a value that is no URef, or fail
MintOutcomes == {"purse", "not_uref", "revert"}

\* Executor::better_exec of an installer: Err, or the value returned
\* (`reference` is the next URef of the address generator)
better_exec_installer(outcome, tc, reference, known_keys) ==
    [tc |-> IF outcome \in {"stored", "stored_invalid"}
            THEN tc_write(tc, normalize(reference),
                          ContractValue(IF outcome = "stored" THEN "wasm" ELSE "invalid",
                                        known_keys))
            ELSE tc,
     ok |-> outcome # "revert",
     value |-> IF outcome = "not_uref" THEN Int32Value(0) ELSE KeyValue(reference)]

\* the purse the address generator seeded with `public_key` yields, and the
\* key of its balance
PurseOf(public_key) == URefKey(300 + public_key, "READ_ADD_WRITE")

BalanceKeyOf(public_key) == HashKey(400 + public_key)

\* Executor::better_exec of the mint's "mint" with `motes`
better_exec_mint(outcome, tc, public_key, motes) ==
    [tc |-> IF outcome = "purse"
            THEN tc_write(tc_write(tc, LocalKey(PurseOf(public_key).addr),
                                   KeyValue(BalanceKeyOf(public_key))),
                          BalanceKeyOf(public_key), U512Value(motes))
            ELSE tc,
     ok |-> outcome # "revert",
     value |-> IF outcome = "not_uref" THEN Int32Value(0)
               ELSE KeyValue(PurseOf(public_key))]

\* `result.try_into()` to a URef
IsURef(value) == value.ty = "Key" /\ value.key.tag = "URef"

TypeMismatch(expected, found) ==
    [kind |-> "TypeMismatch", expected |-> expected, found |-> found]

GenesisLocInit ==
    [mint_reference |-> NoKey, proof_of_stake_reference |-> NoKey,
     account_known_keys |-> EmptyMap, system_account_known_keys |-> EmptyMap,
     accounts |-> <<>>, module |-> "", result |-> [ok |-> FALSE, value |-> NotFound]]

\* `let result = executor.better_exec(..)`
BetterExecResult(run) == [ok |-> run.ok, value |-> run.value]

GenesisInit ==
    /\ config \in [use_payment_code : {TRUE}]
    /\ state = NewProvider(EmptyRoot :> EmptyMap)
    /\ deploy_in \in GenesisConfigs
    /\ pc = "put_protocol_data"
    /\ tracking_copy = NoTc
    /\ session_tc = NoTc
    /\ finalization_tc = NoTc
    /\ loc = GenesisLocInit
    /\ builder = NewBuilder
    /\ calls = <<>>
    /\ resolved = <<>>
    /\ ret = [kind |-> "None"]

\* return Err(error)
ReturnErr(error) ==
    /\ pc' = "done"
    /\ ret' = [kind |-> "Err", error |-> error]

\* a put that stores nothing
put_protocol_data_Dropped(s, protocol_version, protocol_data) == s

\* StateProvider::put_protocol_data
put_protocol_data(s, protocol_version, protocol_data) ==
    [s EXCEPT !.protocol_data = (protocol_version :> protocol_data) @@ @]

\* Spec #2: put_protocol_data; `fault` is the state provider failing
PutProtocolData ==
    /\ pc = "put_protocol_data"
    /\ \E fault \in BOOLEAN :
          IF fault
          THEN ReturnErr(Err("StorageError")) /\ UNCHANGED state
          ELSE /\ state' = put_protocol_data(state, deploy_in.protocol_version,
                                              deploy_in.wasm_costs)
               /\ pc' = "genesis_checkout"
               /\ UNCHANGED ret
    /\ UNCHANGED <<config, deploy_in, tracking_copy, session_tc, finalization_tc,
                   loc, builder, calls, resolved>>

\* Spec #3, #4, #4A: the tracking copy of the empty root with the virtual
\* system account written to it, then the install deploy hash from the
\* serialized cost table
GenesisCheckout ==
    /\ pc = "genesis_checkout"
    /\ \E fault \in {"none", "checkout", "to_bytes"} :
       LET outcome == CheckoutOutcome(fault = "checkout", EmptyRoot \in DOMAIN state.roots)
       IN /\ state' = [state EXCEPT !.failed = (fault = "checkout")]
          /\ CASE outcome = "Err" ->
                 ReturnErr(Err("StorageError")) /\ UNCHANGED tracking_copy
            [] outcome = "None" ->
                 /\ pc' = "done"
                 /\ ret' = [kind |-> "Panic",
                            at |-> "state has not been initialized properly"]
                 /\ UNCHANGED tracking_copy
            [] OTHER ->
                 /\ tracking_copy' =
                        tc_write(NewTrackingCopy(state.roots[EmptyRoot]),
                                 AccountKey(SYSTEM_ACCOUNT_ADDR), virtual_system_account)
                 /\ IF fault = "to_bytes" THEN ReturnErr(Err("SerializationError"))
                    ELSE pc' = "mint_installer" /\ UNCHANGED ret
    /\ UNCHANGED <<config, deploy_in, session_tc, finalization_tc, loc, builder,
                   calls, resolved>>

\* the URefs the address generator of the install deploy hash yields, in order
MintReference == URefKey(Addr.mint_pub, "READ_ADD_WRITE")

ProofOfStakeReference == URefKey(Addr.pos_pub, "READ_ADD_WRITE")

\* a better_exec call of genesis: as the virtual system account, in phase
\* System, with gas limit u64::MAX
BetterExecCall(args, key_lookup, base_key, tc) ==
    ("key_lookup" :> key_lookup)
    @@ Call("better_exec", "System", GAS_U64_MAX, base_key, virtual_system_account.addr,
            virtual_system_account.known_keys, args, tc)

\* Spec #5: preprocess and execute the mint installer; its return value,
\* converted to a URef, is the mint reference
InstallMint ==
    /\ pc = "mint_installer"
    /\ IF ~ValidWasm(deploy_in.mint_installer_bytes)
       THEN /\ ReturnErr(Err("WasmPreprocessingError"))
            /\ UNCHANGED <<tracking_copy, loc, calls>>
       ELSE \E outcome \in InstallerOutcomes :
              LET run == better_exec_installer(outcome, tracking_copy, MintReference,
                                               EmptyMap)
              IN /\ calls' = Append(calls,
                        BetterExecCall(<<>>, EmptyMap, AccountKey(SYSTEM_ACCOUNT_ADDR),
                                       tracking_copy))
                 /\ tracking_copy' = run.tc
                 /\ loc' = [loc EXCEPT
                               !.result = BetterExecResult(run),
                               !.mint_reference =
                                   IF run.ok /\ IsURef(run.value) THEN run.value.key ELSE @]
                 /\ IF ~run.ok THEN ReturnErr(Err("Revert"))
                    ELSE IF ~IsURef(run.value)
                    THEN ReturnErr(TypeMismatch("URef", run.value.ty))
                    ELSE pc' = "pos_installer" /\ UNCHANGED ret
    /\ UNCHANGED <<config, state, deploy_in, session_tc, finalization_tc, builder,
                   resolved>>

\* the PoS installer handed a reference of its own making for the mint's
PosInstallerArgs_OwnReference(mint_reference, genesis_config) ==
    <<ProofOfStakeReference, get_bonded_validators(genesis_config)>>

\* `let args = (mint_reference, bonded_validators)`
PosInstallerArgs(mint_reference, genesis_config) ==
    <<mint_reference, get_bonded_validators(genesis_config)>>

\* Spec #6, #7: preprocess and execute the PoS installer on the mint
\* reference and the bonded validators
InstallProofOfStake ==
    /\ pc = "pos_installer"
    /\ IF ~ValidWasm(deploy_in.proof_of_stake_installer_bytes)
       THEN /\ ReturnErr(Err("WasmPreprocessingError"))
            /\ UNCHANGED <<tracking_copy, loc, calls>>
       ELSE \E outcome \in InstallerOutcomes :
              LET run == better_exec_installer(outcome, tracking_copy,
                                               ProofOfStakeReference,
                                               PosKnownKeys([pos |-> "ok"]))
              IN /\ calls' = Append(calls,
                        BetterExecCall(PosInstallerArgs(loc.mint_reference, deploy_in),
                                       MINT_NAME :> loc.mint_reference,
                                       AccountKey(SYSTEM_ACCOUNT_ADDR), tracking_copy))
                 /\ tracking_copy' = run.tc
                 /\ loc' = [loc EXCEPT
                               !.result = BetterExecResult(run),
                               !.proof_of_stake_reference =
                                   IF run.ok /\ IsURef(run.value) THEN run.value.key ELSE @]
                 /\ IF ~run.ok THEN ReturnErr(Err("Revert"))
                    ELSE IF ~IsURef(run.value)
                    THEN ReturnErr(TypeMismatch("URef", run.value.ty))
                    ELSE pc' = "mint_module" /\ UNCHANGED ret
    /\ UNCHANGED <<config, state, deploy_in, session_tc, finalization_tc, builder,
                   resolved>>

\* chainspec accounts handed the references as the installers returned them
GenesisAccountKnownKeys_Unattenuated(mint_reference, proof_of_stake_reference) ==
    (MINT_NAME :> mint_reference) @@ (POS_NAME :> proof_of_stake_reference)

\* the mint reference stored under a name of its own
GenesisAccountKnownKeys_OtherName(mint_reference, proof_of_stake_reference) ==
    ("mint_contract" :> URefKey(mint_reference.addr, "READ"))
    @@ (POS_NAME :> URefKey(proof_of_stake_reference.addr, "READ"))

\* known keys of the chainspec accounts: the references, READ only
GenesisAccountKnownKeys(mint_reference, proof_of_stake_reference) ==
    (MINT_NAME :> URefKey(mint_reference.addr, "READ"))
    @@ (POS_NAME :> URefKey(proof_of_stake_reference.addr, "READ"))

\* known keys of the system account: the references as the installers
\* returned them
GenesisSystemAccountKnownKeys(mint_reference, proof_of_stake_reference) ==
    (MINT_NAME :> mint_reference) @@ (POS_NAME :> proof_of_stake_reference)

\* the system account created with motes of its own
GenesisAccounts_FundedSystem(genesis_config, account_known_keys, system_account_known_keys) ==
    [i \in DOMAIN genesis_config.accounts |->
        <<genesis_config.accounts[i], account_known_keys>>]
    \o <<<<GenesisAccount(SYSTEM_ACCOUNT_ADDR, 1, 0), system_account_known_keys>>>>

\* the system account created before the chainspec accounts
GenesisAccounts_SystemFirst(genesis_config, account_known_keys, system_account_known_keys) ==
    <<<<GenesisAccount(SYSTEM_ACCOUNT_ADDR, 0, 0), system_account_known_keys>>>>
    \o [i \in DOMAIN genesis_config.accounts |->
           <<genesis_config.accounts[i], account_known_keys>>]

\* the chainspec accounts with their known keys, then the system account,
\* of no motes, with its own
GenesisAccounts(genesis_config, account_known_keys, system_account_known_keys) ==
    [i \in DOMAIN genesis_config.accounts |->
        <<genesis_config.accounts[i], account_known_keys>>]
    \o <<<<GenesisAccount(SYSTEM_ACCOUNT_ADDR, 0, 0), system_account_known_keys>>>>

\* the known keys, the accounts to create, and the mint module read from
\* the mint reference
GetMintModule ==
    /\ pc = "mint_module"
    /\ LET account_known_keys ==
               GenesisAccountKnownKeys(loc.mint_reference, loc.proof_of_stake_reference)
           system_account_known_keys ==
               GenesisSystemAccountKnownKeys(loc.mint_reference,
                                             loc.proof_of_stake_reference)
           m == LoadStored(tracking_copy, normalize(loc.mint_reference))
       IN /\ tracking_copy' = m.tc
          /\ IF ~m.ok THEN ReturnErr(m.error) /\ UNCHANGED loc
             ELSE /\ loc' = [loc EXCEPT
                               !.account_known_keys = account_known_keys,
                               !.system_account_known_keys = system_account_known_keys,
                               !.accounts = GenesisAccounts(deploy_in, account_known_keys,
                                                            system_account_known_keys),
                               !.module = m.module]
                  /\ pc' = "create_account"
                  /\ UNCHANGED ret
    /\ UNCHANGED <<config, state, deploy_in, session_tc, finalization_tc, builder,
                   calls, resolved>>

\* one turn of `for (account, known_keys) in accounts`: call the mint's
\* "mint" for the account's balance and write the account with the purse
CreateAccount ==
    /\ pc = "create_account"
    /\ loc.accounts # <<>>
    /\ LET account == Head(loc.accounts)[1]
           known_keys == Head(loc.accounts)[2]
       IN \E outcome \in MintOutcomes :
            LET run == better_exec_mint(outcome, tracking_copy, account.public_key,
                                        account.balance)
            IN /\ calls' = Append(calls,
                      BetterExecCall(<<MINT_METHOD_NAME, account.balance>>, EmptyMap,
                                     loc.mint_reference, tracking_copy))
               /\ IF ~run.ok
                  THEN /\ ReturnErr(Err("Revert"))
                       /\ tracking_copy' = run.tc
                       /\ loc' = [loc EXCEPT !.result = BetterExecResult(run)]
                  ELSE IF ~IsURef(run.value)
                  THEN /\ ReturnErr(TypeMismatch("URef", run.value.ty))
                       /\ tracking_copy' = run.tc
                       /\ loc' = [loc EXCEPT !.result = BetterExecResult(run)]
                  ELSE /\ tracking_copy' =
                              tc_write(run.tc, AccountKey(account.public_key),
                                       Account_create(account.public_key, known_keys,
                                                      run.value.key))
                       /\ loc' = [loc EXCEPT !.result = BetterExecResult(run),
                                             !.accounts = Tail(loc.accounts)]
                       /\ pc' = IF Tail(loc.accounts) = <<>> THEN "genesis_commit"
                                ELSE "create_account"
                       /\ UNCHANGED ret
    /\ UNCHANGED <<config, state, deploy_in, session_tc, finalization_tc, builder,
                   resolved>>

\* StateProvider::commit returning Err: recorded, no root produced
commit_err(s, prestate_hash, effects) ==
    [s EXCEPT !.commits = Append(@, [prestate_hash |-> prestate_hash,
                                     effects |-> effects, ok |-> FALSE])]

\* GenesisResult::from_commit_result
GenesisResult(s, prestate_hash, effects) ==
    [post_state_hash |->
         CHOOSE r \in DOMAIN s.roots :
             s.roots[r] = ApplyEffects(s.roots[prestate_hash], effects),
     effect |-> effects]

\* Spec #15: commit the transforms of the tracking copy to the empty root
GenesisCommit ==
    /\ pc = "genesis_commit"
    /\ \E fault \in BOOLEAN :
          IF fault
          THEN /\ state' = commit_err(state, EmptyRoot, effect(tracking_copy))
               /\ ReturnErr(Err("StorageError"))
          ELSE /\ state' = commit(state, EmptyRoot, effect(tracking_copy))
               /\ pc' = "done"
               /\ ret' = [kind |-> "Ok", via |-> "commit_genesis_with_chainspec",
                          result |-> GenesisResult(state', EmptyRoot,
                                                   effect(tracking_copy))]
    /\ UNCHANGED <<config, deploy_in, tracking_copy, session_tc, finalization_tc,
                   loc, builder, calls, resolved>>

GenesisNext ==
    \/ PutProtocolData
    \/ GenesisCheckout
    \/ InstallMint
    \/ InstallProofOfStake
    \/ GetMintModule
    \/ CreateAccount
    \/ GenesisCommit

GenesisSpec == GenesisInit /\ [][GenesisNext]_vars

\* the accounts a state holds records of
AccountsOf(store) == {k.addr : k \in {x \in DOMAIN store : x.tag = "Account"}}

\* a caller that, once genesis has returned Ok, deploys as one of the
\* accounts of the post-state, authorized by the account's own key, against
\* the post-state root
DeployByGenesisAccount ==
    /\ pc = "done"
    /\ ret.kind = "Ok"
    /\ ret.via = "commit_genesis_with_chainspec"
    /\ \E public_key \in AccountsOf(state.roots[ret.result.post_state_hash]) :
          deploy_in' = [session |-> ModuleBytes("wasm"), payment |-> ModuleBytes("wasm"),
                        address |-> AccountKey(public_key),
                        authorization_keys |-> {public_key},
                        prestate_hash |-> ret.result.post_state_hash]
    /\ pc' = "checkout"
    /\ tracking_copy' = NoTc
    /\ loc' = LocInit
    /\ calls' = <<>>
    /\ ret' = [kind |-> "None"]
    /\ UNCHANGED <<config, state, session_tc, finalization_tc, builder, resolved>>

\* genesis, then a deploy with payment enabled as far as the post-state
\* lets it go
GenesisDeployNext ==
    \/ GenesisNext
    \/ DeployByGenesisAccount
    \/ Checkout
    \/ Authorize
    \/ ResolveSession
    \/ FindMint

GenesisDeploySpec == GenesisInit /\ [][GenesisDeployNext]_vars

(***************************************************************************)
(* The mailing-list contract                                               *)
(* (integration-testing/contracts/mailing-list/define/src/lib.rs).         *)
(*                                                                         *)
(* loc holds what the contract works on: urefs, the stored contract's      *)
(* known keys (name to address); store, the values under the URefs it has  *)
(* created (address to list of strings); next, the address new_turef       *)
(* gives next; account_urefs, the known keys of the account that ran       *)
(* call(); before, urefs and store as they were when the last invocation   *)
(* began; ok, whether that invocation ended normally.  calls is the log    *)
(* of the invocations.  An invocation that reverts or panics leaves no     *)
(* effect.                                                                 *)
(***************************************************************************)
\* invocations of mailing_list_ext after call()
MaxMailCalls == 5

\* the names handed to "sub"
SubscriberNames == {"list", "alice", "bob"}

\* the messages handed to "pub"
Messages == {"m1", "m2"}

\* new_turef(init): a fresh URef holding `init`
new_turef(st, init) ==
    [st EXCEPT !.store = (st.next :> init) @@ st.store, !.next = st.next + 1]

\* add_uref(name, key)
add_uref(st, name, key) ==
    [st EXCEPT !.urefs = (name :> key) @@ [n \in DOMAIN st.urefs \ {name} |-> st.urefs[n]]]

\* get_list_key(name) finds a key under the name; its unwrap panics otherwise
has_uref(st, name) == name \in DOMAIN st.urefs

\* update_list: read the list, push the name, write the list
update_list(st, name) ==
    IF ~has_uref(st, "list") THEN [ok |-> FALSE, st |-> st]
    ELSE LET list_key == st.urefs["list"]
             list == st.store[list_key]
         IN [ok |-> TRUE,
             st |-> [st EXCEPT !.store[list_key] = Append(list, name)]]

\* sub without the test for a name already bound
sub_Unchecked(st, name) ==
    LET new_key == st.next
    IN update_list(add_uref(new_turef(st, <<"Welcome!">>), name, new_key), name)

\* sub
sub(st, name) ==
    IF has_uref(st, name)
    THEN [ok |-> TRUE, st |-> new_turef(st, <<"Hello again!">>)]
    ELSE LET new_key == st.next
         IN update_list(add_uref(new_turef(st, <<"Welcome!">>), name, new_key), name)

\* the loop of publish over the names still to serve
RECURSIVE PublishTo(_, _, _)
PublishTo(st, names, msg) ==
    IF names = <<>> THEN [ok |-> TRUE, st |-> st]
    ELSE IF ~has_uref(st, Head(names)) THEN [ok |-> FALSE, st |-> st]
    ELSE LET uref == st.urefs[Head(names)]
             messages == st.store[uref]
         IN PublishTo([st EXCEPT !.store[uref] = Append(messages, msg)],
                      Tail(names), msg)

\* publish
publish(st, msg) ==
    IF ~has_uref(st, "list") THEN [ok |-> FALSE, st |-> st]
    ELSE PublishTo(st, st.store[st.urefs["list"]], msg)

\* mailing_list_ext: the match on the method name
mailing_list_ext(st, method_name, arg) ==
    CASE method_name = "sub" -> sub(st, arg)
      [] method_name = "pub" -> publish(st, arg)
      [] OTHER -> [ok |-> FALSE, st |-> st]

MailLoc(st, before, ok) ==
    [urefs |-> st.urefs, store |-> st.store, next |-> st.next,
     account_urefs |-> st.account_urefs,
     before |-> [urefs |-> before.urefs, store |-> before.store], ok |-> ok]

MailInit ==
    /\ config = [use_payment_code |-> FALSE]
    /\ state = NewProvider(EmptyMap)
    /\ deploy_in = EmptyMap
    /\ pc = "mail_call"
    /\ tracking_copy = NoTc
    /\ session_tc = NoTc
    /\ finalization_tc = NoTc
    /\ loc = [urefs |-> EmptyMap, store |-> EmptyMap, next |-> 1,
              account_urefs |-> EmptyMap,
              before |-> [urefs |-> EmptyMap, store |-> EmptyMap], ok |-> TRUE]
    /\ builder = NewBuilder
    /\ calls = <<>>
    /\ resolved = <<>>
    /\ ret = [kind |-> "None"]

\* call(): create the list, store the contract with the list as its only
\* known key, bind the contract's pointer in the account as "mailing"
MailingListCall ==
    /\ pc = "mail_call"
    /\ LET list_key == loc.next
           st == new_turef(loc, <<>>)
       IN loc' = MailLoc([st EXCEPT !.urefs = "list" :> list_key,
                                   !.account_urefs = "mailing" :> "mailing_list_ext"],
                         loc, TRUE)
    /\ pc' = "mail_stored"
    /\ UNCHANGED <<config, state, deploy_in, tracking_copy, session_tc,
                   finalization_tc, builder, calls, resolved, ret>>

\* one invocation of the stored contract
MailingListExt ==
    /\ pc = "mail_stored"
    /\ Len(calls) < MaxMailCalls
    /\ \E method_name \in {"sub", "pub", "other"} :
       \E arg \in (IF method_name = "sub" THEN SubscriberNames ELSE Messages) :
          LET run == mailing_list_ext(loc, method_name, arg)
          IN /\ calls' = Append(calls, [method_name |-> method_name, arg |-> arg])
             /\ loc' = MailLoc(IF run.ok THEN run.st ELSE loc, loc, run.ok)
    /\ UNCHANGED <<config, state, deploy_in, pc, tracking_copy, session_tc,
                   finalization_tc, builder, resolved, ret>>

MailNext == MailingListCall \/ MailingListExt

MailingListSpec == MailInit /\ [][MailNext]_vars

(***************************************************************************)
(* Properties                                                              *)
(***************************************************************************)
PreStore == state.roots[KnownRoot]

Returned == pc \in {"done", "committed"} /\ ret.kind = "Ok"

ReturnedVia(via) == Returned /\ ret.via = via

ReturnedPreconditionFailure(error) ==
    ReturnedVia("precondition_failure") /\ ret.result = precondition_failure(error)

Phases == [i \in DOMAIN calls |-> calls[i].phase]

\* the deploy passed the checkout and loaded the account from the pre-state
AccountLoaded ==
    /\ tracking_copy # NoTc
    /\ pc # "authorize"
    /\ deploy_in.address = AccountKey(Addr.account)
    /\ AccountKey(Addr.account) \in DOMAIN PreStore

PreAccount == PreStore[AccountKey(Addr.account)]

\* the balance of the PoS payment purse after the payment code has run
PostPaymentPurseBalance == tracking_copy.view[PaymentBalanceKey].v

SessionFailedUnderPayment ==
    config.use_payment_code /\ Len(calls) >= 2 /\ is_failure(builder.session)

SessionOnlyKeys ==
    DOMAIN builder.session.effect
        \ (DOMAIN builder.payment.effect \cup DOMAIN builder.finalize.effect)

\* C1: with payment enabled, session runs on a fork of the post-payment
\* tracking copy; when the session result is a failure, finalize runs on a
\* fork of the post-payment tracking copy (it sees none of the session's
\* writes), and no key touched only by the session is in the final effect set.
C1_SessionIsolation ==
    config.use_payment_code =>
        /\ Len(calls) >= 2 => calls[2].tc = fork(tracking_copy)
        /\ (SessionFailedUnderPayment /\ Len(calls) >= 3) =>
              /\ calls[3].tc.view = tracking_copy.view
              /\ \A k \in DOMAIN calls[3].tc.fns : calls[3].tc.fns[k] = Identity
        /\ (SessionFailedUnderPayment /\ ReturnedVia("build")) =>
              \A k \in SessionOnlyKeys : k \notin DOMAIN ret.result.effect

C1_Witness ==
    /\ SessionFailedUnderPayment
    /\ ReturnedVia("build")
    /\ SessionOnlyKeys # {}
    /\ ret.result.effect # EmptyMap
    /\ session_tc.view # tracking_copy.view

ForcedTransferCondition ==
    \/ is_failure(builder.payment)
    \/ PostPaymentPurseBalance < builder.payment.cost * CONV_RATE
    \/ PostPaymentPurseBalance < MAX_PAYMENT

ForcedTransferEffect ==
    (MainBalanceKey :> AddUInt512(0 - MAX_PAYMENT))
    @@ (RewardsBalanceKey :> AddUInt512(MAX_PAYMENT))

\* C2: once the payment result is checked, if the payment failed, or the
\* payment purse holds less than the payment cost times CONV_RATE, or less
\* than MAX_PAYMENT, deploy returns a failure whose effects are only the
\* transfer of MAX_PAYMENT from the main purse's balance to the rewards
\* purse's balance, with cost MAX_PAYMENT; otherwise no forced transfer is
\* returned and the deploy goes on to the session.
C2_ForcedTransfer ==
    builder.payment # NoResult =>
        IF ForcedTransferCondition
        THEN /\ ReturnedVia("forced_transfer")
             /\ is_failure(ret.result)
             /\ ret.result.effect = ForcedTransferEffect
             /\ ret.result.cost = MAX_PAYMENT
        ELSE /\ ~ReturnedVia("forced_transfer")
             /\ pc = "session" \/ Len(calls) >= 2 \/ ret.kind = "Panic"

C2_Witness ==
    /\ ReturnedVia("forced_transfer")
    /\ ~is_failure(builder.payment)
    /\ PostPaymentPurseBalance >= builder.payment.cost * CONV_RATE
    /\ \E k \in UserKeys : k \in DOMAIN builder.payment.effect

\* C3: with payment enabled the executor is called at most once per phase, in
\* the order Payment, Session, FinalizePayment; Session is called only when no
\* forced transfer fired, and after a forced transfer nothing but Payment was
\* called.
C3_PhaseOrdering ==
    config.use_payment_code =>
        /\ Phases \in {<<>>, <<"Payment">>, <<"Payment", "Session">>,
                       <<"Payment", "Session", "FinalizePayment">>}
        /\ Len(calls) >= 2 =>
              /\ builder.payment # NoResult
              /\ ~ForcedTransfer(builder, loc).some
              /\ ~ReturnedVia("forced_transfer")
        /\ ReturnedVia("forced_transfer") => Phases = <<"Payment">>

C3_Witness ==
    /\ config.use_payment_code
    /\ Phases = <<"Payment", "Session", "FinalizePayment">>
    /\ is_failure(builder.session)

\* C4 as claimed: an empty key set, keys the account cannot authorize with, or
\* keys below the deployment threshold all return
\* PreconditionFailure(AuthorizationError).
C4_Original ==
    (/\ AccountLoaded
     /\ \/ deploy_in.authorization_keys = {}
        \/ ~can_authorize(PreAccount, deploy_in.authorization_keys)
        \/ ~can_deploy_with(PreAccount, deploy_in.authorization_keys))
    => ReturnedPreconditionFailure(Err("AuthorizationError"))

\* C4 amended: an empty key set or keys the account cannot authorize with
\* return PreconditionFailure(AuthorizationError); keys the account can
\* authorize with whose weight is below the deployment threshold return
\* PreconditionFailure(DeploymentAuthorizationFailure).
C4_Authorize ==
    AccountLoaded =>
        IF \/ deploy_in.authorization_keys = {}
           \/ ~can_authorize(PreAccount, deploy_in.authorization_keys)
        THEN ReturnedPreconditionFailure(Err("AuthorizationError"))
        ELSE ~can_deploy_with(PreAccount, deploy_in.authorization_keys)
             => ReturnedPreconditionFailure(Err("DeploymentAuthorizationFailure"))

C4_Witness ==
    /\ AccountLoaded
    /\ deploy_in.authorization_keys # {}
    /\ ReturnedPreconditionFailure(Err("DeploymentAuthorizationFailure"))

\* C5: a deploy whose authorization keys weigh less than the account's
\* deployment threshold returns a precondition failure without effects, and
\* neither get_module nor the executor is called for it, with payment code
\* enabled or not.
C5_AuthorizationSoundness ==
    (/\ AccountLoaded
     /\ ~can_deploy_with(PreAccount, deploy_in.authorization_keys))
    => /\ ReturnedVia("precondition_failure")
       /\ is_failure(ret.result)
       /\ ret.result.effect = EmptyMap
       /\ resolved = <<>>
       /\ calls = <<>>

C5_Witness ==
    /\ AccountLoaded
    /\ ~config.use_payment_code
    /\ can_authorize(PreAccount, deploy_in.authorization_keys)
    /\ deploy_in.authorization_keys # {}
    /\ ~can_deploy_with(PreAccount, deploy_in.authorization_keys)
    /\ ReturnedVia("precondition_failure")

\* C6: deploy returns Err exactly when the provider answers the checkout
\* without error and does not know the pre-state root, the error being
\* RootNotFound of that root; when the provider fails the checkout it returns
\* Ok with a precondition failure; nothing past the checkout returns Err.
C6_Checkout ==
    pc = "done" =>
        /\ ret.kind = "Err" <=>
              (~state.failed /\ deploy_in.prestate_hash \notin DOMAIN state.roots)
        /\ ret.kind = "Err" =>
              /\ ret.error = "RootNotFound"
              /\ ret.root = deploy_in.prestate_hash
              /\ tracking_copy = NoTc
        /\ state.failed => ReturnedVia("precondition_failure")

C6_Witness ==
    /\ pc = "done"
    /\ ret.kind = "Err"
    /\ ret.root = KnownRoot + 1

\* the deploy read the main purse's balance from the pre-state
BalanceChecked ==
    /\ config.use_payment_code
    /\ loc.account_main_purse_balance_key = MainBalanceKey
    /\ pc # "minimum_balance"

PreBalance == PreStore[MainBalanceKey].v

\* C7: with payment enabled, a main purse balance below MAX_PAYMENT returns
\* PreconditionFailure(InsufficientPaymentError) with no executor call; a
\* balance of MAX_PAYMENT or more passes on to the payment code.
C7_MinimumBalance ==
    BalanceChecked =>
        IF PreBalance < MAX_PAYMENT
        THEN /\ ReturnedPreconditionFailure(Err("InsufficientPaymentError"))
             /\ calls = <<>>
        ELSE pc = "payment" \/ Len(resolved) = 2

C7_Witness ==
    /\ BalanceChecked
    /\ PreBalance = MAX_PAYMENT
    /\ Len(calls) >= 1

\* C8: whenever a forced transfer is returned the main purse held at least
\* MAX_PAYMENT in the pre-state, and the forced transfer's effects leave its
\* balance at zero or more.
C8_ForcedTransferBalance ==
    ReturnedVia("forced_transfer") =>
        /\ PreBalance >= MAX_PAYMENT
        /\ ApplyEffects(PreStore, ret.result.effect)[MainBalanceKey].v >= 0

C8_Witness ==
    /\ ReturnedVia("forced_transfer")
    /\ PreBalance = MAX_PAYMENT
    /\ ApplyEffects(PreStore, ret.result.effect)[MainBalanceKey].v = 0

\* C9: the session's gas limit is floor(P / CONV_RATE) - C, P the balance of
\* the PoS payment purse after the payment code and C the payment's gas cost.
C9_SessionGasLimit ==
    (config.use_payment_code /\ Len(calls) >= 2) =>
        calls[2].gas_limit =
            GasLimit((PostPaymentPurseBalance \div CONV_RATE) - builder.payment.cost)

C9_Witness ==
    /\ config.use_payment_code
    /\ Len(calls) >= 2
    /\ PostPaymentPurseBalance % CONV_RATE # 0
    /\ builder.payment.cost > 0

\* C10: finalize is run through exec_direct as the system account (address
\* 0^32, no known keys) with gas limit u64::MAX in phase FinalizePayment, with
\* the PoS inner key as base key, on a fork of the session's tracking copy (of
\* the post-payment one if the session failed), with the arguments
\* ("finalize_payment", (payment cost + session cost) * CONV_RATE, the
\* deploying account's address).
C10_FinalizeInvocation ==
    (config.use_payment_code /\ Len(calls) >= 3) =>
        /\ calls[3].entry = "exec_direct"
        /\ calls[3].phase = "FinalizePayment"
        /\ calls[3].account_addr = SYSTEM_ACCOUNT_ADDR
        /\ calls[3].account_known_keys = EmptyMap
        /\ calls[3].gas_limit = GAS_U64_MAX
        /\ calls[3].base_key = PreStore[normalize(PreAccount.known_keys[POS_NAME])].key
        /\ calls[3].tc.view = IF is_failure(builder.session) THEN tracking_copy.view
                              ELSE session_tc.view
        /\ \A k \in DOMAIN calls[3].tc.fns : calls[3].tc.fns[k] = Identity
        /\ calls[3].args =
              <<"finalize_payment",
                (builder.payment.cost + builder.session.cost) * CONV_RATE,
                PreAccount.addr>>

C10_Witness ==
    /\ config.use_payment_code
    /\ Len(calls) >= 3
    /\ is_failure(builder.session)
    /\ builder.session.cost > 0
    /\ builder.payment.cost > 0

\* a precondition failure was returned, by an early return or by the builder
ReturnedPreconditionFailureResult ==
    /\ Returned
    /\ \/ ret.via = "precondition_failure"
       \/ ret.via = "build"
          /\ ret.result = precondition_failure(Err("FinalizationError"))

\* the session ran under payment, failed, and the deploy has returned
ReturnedAfterFailedSession ==
    /\ config.use_payment_code
    /\ Returned
    /\ is_failure(loc.session_result)

SessionFailureResult ==
    FailureResult(loc.session_result.error,
                  MergeEffects(loc.payment_result.effect, loc.finalize_result.effect),
                  loc.payment_result.cost)

\* C11 as claimed: whenever the session fails and no forced transfer fired,
\* the result holds the payment and finalize effects without the session's,
\* and its cost is the payment cost.
C11_Original ==
    ReturnedAfterFailedSession => ret.result = SessionFailureResult

\* C11 amended: when the session fails, no forced transfer fired and finalize
\* ran and did not fail, the result is a failure with the session's error, its
\* effects are the payment's merged with finalize's, without the session's,
\* and its cost is the payment cost.
C11_SessionFailureCost ==
    (/\ ReturnedAfterFailedSession
     /\ loc.finalize_result # NoResult
     /\ ~is_failure(loc.finalize_result))
    => /\ ret.via = "build"
       /\ ret.result = SessionFailureResult
       /\ \A k \in DOMAIN loc.session_result.effect :
             k \in DOMAIN ret.result.effect
             => k \in DOMAIN loc.payment_result.effect
                         \cup DOMAIN loc.finalize_result.effect

C11_Witness ==
    /\ ReturnedAfterFailedSession
    /\ ~is_failure(loc.finalize_result)
    /\ ret.via = "build"
    /\ loc.session_result.cost > 0
    /\ loc.payment_result.cost > 0
    /\ OtherBalanceKey \in DOMAIN loc.session_result.effect
    /\ OtherBalanceKey \notin DOMAIN ret.result.effect

\* C12: a precondition failure returned by deploy carries no effects, whatever
\* the tracking copy had recorded up to the failing check (reads of the
\* account and the system contracts, the payment code's transforms).
C12_PreconditionFailureNoEffects ==
    ReturnedPreconditionFailureResult =>
        /\ is_failure(ret.result)
        /\ ret.result.effect = EmptyMap

C12_Witness ==
    /\ ReturnedVia("precondition_failure")
    /\ Len(calls) = 1
    /\ calls[1].phase = "Payment"
    /\ \E k \in DOMAIN tracking_copy.fns : tracking_copy.fns[k].t = "AddUInt512"
    /\ ret.result.effect = EmptyMap

SessionExecuted == \E i \in DOMAIN calls : calls[i].phase = "Session"

\* C13 as claimed: whenever deploy returns a precondition failure the session
\* code was never executed and the payment was not charged.
C13_Original ==
    ReturnedPreconditionFailureResult =>
        /\ ~SessionExecuted
        /\ ret.result.effect = EmptyMap

\* C13 amended: whenever deploy returns a precondition failure the payment is
\* not charged (the result has no effects), and the session code was not
\* executed unless the failure is one of the two returned after the session
\* call: the PoS module does not deserialize, or finalize failed.
C13_PreconditionFailureBeforeSession ==
    ReturnedPreconditionFailureResult =>
        /\ ret.result.effect = EmptyMap
        /\ SessionExecuted =>
              \/ /\ ret.via = "precondition_failure"
                 /\ ret.result.error = Err("WasmPreprocessingError")
                 /\ ~ValidWasm(loc.proof_of_stake_info.contract.bytes)
                 /\ Len(calls) = 2
              \/ /\ ret.via = "build"
                 /\ is_failure(loc.finalize_result)
                 /\ Len(calls) = 3

C13_Witness ==
    /\ ReturnedPreconditionFailureResult
    /\ SessionExecuted
    /\ ret.via = "build"
    /\ ~is_failure(loc.session_result)
    /\ loc.session_result.effect # EmptyMap

\* C14: if the finalize phase fails, the result of the deploy is a
\* precondition failure: it has no effects and no cost, and carries neither
\* the payment's nor the session's transforms nor the session's error.
C14_FinalizeFailure ==
    (Returned /\ is_failure(loc.finalize_result)) =>
        /\ ret.via = "build"
        /\ ret.result = precondition_failure(Err("FinalizationError"))
        /\ ret.result.effect = EmptyMap
        /\ ret.result.cost = 0

C14_Witness ==
    /\ Returned
    /\ is_failure(loc.finalize_result)
    /\ is_failure(loc.session_result)
    /\ loc.payment_result.effect # EmptyMap
    /\ loc.payment_result.cost > 0

PostStore == ApplyEffects(PreStore, ret.result.effect)

BalanceIn(store, key) ==
    IF key \in DOMAIN store /\ store[key].ty = "U512" THEN store[key].v ELSE 0

\* the change the returned effects make to the balance at `key`
Delta(key) == BalanceIn(PostStore, key) - BalanceIn(PreStore, key)

Abs(n) == IF n < 0 THEN 0 - n ELSE n

ReturnedExecutionResult == Returned /\ ~ReturnedPreconditionFailureResult

\* C16 as claimed: for every result that is not a precondition failure the
\* changes of the main purse and of the rewards purse sum to zero, and the
\* rewards purse changes by the reported cost times CONV_RATE.
C16_Original ==
    ReturnedExecutionResult =>
        /\ Delta(MainBalanceKey) + Delta(RewardsBalanceKey) = 0
        /\ Abs(Delta(RewardsBalanceKey)) = ret.result.cost * CONV_RATE

\* C16 amended: a forced transfer moves MAX_PAYMENT from the main purse to the
\* rewards purse and reports cost MAX_PAYMENT; a deploy that completes
\* finalize raises the rewards purse by (payment cost + session cost) *
\* CONV_RATE, which is the reported cost times CONV_RATE when the session
\* succeeded, leaves the payment purse as it was, and the changes of the main
\* purse, the rewards purse and the purses the session transferred to sum to
\* zero; without payment code nothing is charged.
C16_ChargeConservation ==
    ReturnedExecutionResult =>
        CASE ret.via = "forced_transfer" ->
               /\ Delta(MainBalanceKey) = 0 - MAX_PAYMENT
               /\ Delta(RewardsBalanceKey) = MAX_PAYMENT
               /\ ret.result.cost = MAX_PAYMENT
          [] ret.via = "build" ->
               /\ Delta(RewardsBalanceKey) =
                      (loc.payment_result.cost + loc.session_result.cost) * CONV_RATE
               /\ ~is_failure(ret.result) =>
                      Delta(RewardsBalanceKey) = ret.result.cost * CONV_RATE
               /\ Delta(PaymentBalanceKey) = 0
               /\ Delta(MainBalanceKey) + Delta(RewardsBalanceKey)
                      + Delta(OtherBalanceKey) = 0
          [] OTHER ->
               /\ ~config.use_payment_code
               /\ Delta(RewardsBalanceKey) = 0

C16_Witness ==
    /\ ReturnedVia("build")
    /\ ~is_failure(ret.result)
    /\ ret.result.cost > 1
    /\ Delta(OtherBalanceKey) > 0
    /\ Delta(RewardsBalanceKey) = ret.result.cost * CONV_RATE

\* C17 as claimed: the returned effects leave the pre-state as it was if and
\* only if the result is a precondition failure.
C17_Original ==
    Returned => (PostStore = PreStore <=> ReturnedPreconditionFailureResult)

\* C17 amended: the effects of a precondition failure leave the pre-state as
\* it was; with payment enabled, the effects of any other result of positive
\* cost change it (the rewards purse holds more).  Without payment code, or at
\* cost zero, a result that is no precondition failure may leave the state as
\* it was.
C17_Atomicity ==
    Returned =>
        /\ ReturnedPreconditionFailureResult => PostStore = PreStore
        /\ (/\ config.use_payment_code
            /\ ~ReturnedPreconditionFailureResult
            /\ ret.result.cost > 0)
           => /\ PostStore # PreStore
              /\ Delta(RewardsBalanceKey) > 0

C17_Witness ==
    /\ ReturnedVia("build")
    /\ config.use_payment_code
    /\ ret.result.cost > 0
    /\ loc.session_result.effect = EmptyMap
    /\ PostStore # PreStore

\* C18: no step of deploy changes the roots the state provider knows or the
\* state stored under any of them; they change only when apply_effect commits
\* the returned effects.
C18_DeployStateless ==
    [][state'.roots # state.roots => (pc = "done" /\ pc' = "committed")]_vars

C18_Witness ==
    /\ pc = "done"
    /\ ReturnedVia("build")
    /\ PostStore # PreStore
    /\ state.roots = (KnownRoot :> PreStore)
    /\ tracking_copy.view # PreStore

\* the deploy resolved its session module under payment and is past the
\* lookups of the two system contracts
SystemContractsLookedUp ==
    /\ config.use_payment_code
    /\ AccountLoaded
    /\ loc.session_module # LocInit.session_module
    /\ pc \notin {"mint", "proof_of_stake"}

MintNamed == MINT_NAME \in DOMAIN PreAccount.known_keys

PosNamed == POS_NAME \in DOMAIN PreAccount.known_keys

\* the account's mint reference leads to the mint contract in the pre-state
MintResolves ==
    /\ MintNamed
    /\ get_system_contract_info(NewTrackingCopy(PreStore),
                                normalize(PreAccount.known_keys[MINT_NAME])).ok

\* C20 as claimed: without the mint name the deploy returns
\* MissingSystemContractError(mint); with the mint name and without the PoS
\* name it returns MissingSystemContractError(pos); no code is executed.
C20_Original ==
    SystemContractsLookedUp =>
        /\ ~MintNamed =>
              /\ ReturnedPreconditionFailure(MissingSystemContractError(MINT_NAME))
              /\ calls = <<>>
        /\ (MintNamed /\ ~PosNamed) =>
              /\ ReturnedPreconditionFailure(MissingSystemContractError(POS_NAME))
              /\ calls = <<>>

\* C20 amended: without the mint name the deploy returns
\* MissingSystemContractError(mint); with a mint name that leads to the mint
\* contract and without the PoS name it returns
\* MissingSystemContractError(pos); with a mint name that does not lead to a
\* contract it returns the precondition failure of that lookup, whether the
\* PoS name is there or not; in all three cases no code is executed.
C20_MissingSystemContract ==
    SystemContractsLookedUp =>
        /\ ~MintNamed =>
              /\ ReturnedPreconditionFailure(MissingSystemContractError(MINT_NAME))
              /\ calls = <<>>
        /\ (MintResolves /\ ~PosNamed) =>
              /\ ReturnedPreconditionFailure(MissingSystemContractError(POS_NAME))
              /\ calls = <<>>
        /\ (MintNamed /\ ~MintResolves) =>
              /\ ReturnedVia("precondition_failure")
              /\ ret.result.error \notin {MissingSystemContractError(MINT_NAME),
                                          MissingSystemContractError(POS_NAME)}
              /\ calls = <<>>

C20_Witness ==
    /\ SystemContractsLookedUp
    /\ MintResolves
    /\ ~PosNamed
    /\ ReturnedPreconditionFailure(MissingSystemContractError(POS_NAME))
    /\ tracking_copy.fns # EmptyMap

\* the session ran under payment and ended at a forged reference
SessionForged ==
    /\ config.use_payment_code
    /\ Returned
    /\ loc.session_result.error = ForgedReference(ForgedURef)

\* C21 as claimed: a deploy whose session presents a URef the account does
\* not know ends with error ForgedReference and the forced transfer: the
\* account is charged MAX_PAYMENT.
C21_Original ==
    SessionForged =>
        /\ ret.result.error = ForgedReference(ForgedURef)
        /\ ret.result.effect = ForcedTransferEffect
        /\ ret.result.cost = MAX_PAYMENT

\* C21 amended: a session that ends at a forged reference is never followed
\* by the forced transfer; when finalize then succeeds the deploy returns a
\* failure with error ForgedReference whose effects are the payment's merged
\* with finalize's, whose cost is the payment cost, and which moves (payment
\* cost + session cost) * CONV_RATE to the rewards purse.
C21_ForgedReference ==
    SessionForged =>
        /\ ret.via # "forced_transfer"
        /\ (loc.finalize_result # NoResult /\ ~is_failure(loc.finalize_result)) =>
              /\ ret.via = "build"
              /\ ret.result = SessionFailureResult
              /\ ret.result.error = ForgedReference(ForgedURef)
              /\ ret.result.cost = loc.payment_result.cost
              /\ Delta(RewardsBalanceKey) =
                    (loc.payment_result.cost + loc.session_result.cost) * CONV_RATE

C21_Witness ==
    /\ SessionForged
    /\ ret.via = "build"
    /\ is_failure(ret.result)
    /\ ret.result.error = ForgedReference(ForgedURef)
    /\ loc.session_result.effect # EmptyMap
    /\ Delta(RewardsBalanceKey) < MAX_PAYMENT

\* the session item has been handed to get_module
SessionResolved == pc \notin {"checkout", "authorize", "resolve_session"} /\ resolved # <<>>

\* the session item names a stored contract by a URef address of full length
SessionByURef ==
    /\ SessionResolved
    /\ AccountLoaded
    /\ resolved[1].kind = "StoredContractByURef"
    /\ resolved[1].len = UREF_ADDR_SIZE

SessionReadOnlyURef == URefKey(resolved[1].uref, "READ")

\* the names under which the account knows a URef of the address asked for
KnownAt ==
    {n \in DOMAIN PreAccount.known_keys :
        /\ PreAccount.known_keys[n].tag = "URef"
        /\ PreAccount.known_keys[n].addr = resolved[1].uref}

SomeReadableKnown == \E n \in KnownAt : is_readable(PreAccount.known_keys[n])

\* the deploy was rejected at the resolution of its session item with `error`
SessionRejectedWith(error) ==
    ReturnedPreconditionFailure(error) /\ Len(resolved) = 1 /\ calls = <<>>

\* the session item passed the known-key and readability checks
URefChecksPassed ==
    /\ ~SessionRejectedWith(KeyNotFound(SessionReadOnlyURef))
    /\ ~SessionRejectedWith(ForgedReference(SessionReadOnlyURef))
    /\ ~SessionRejectedWith([kind |-> "TypeMismatch", expected |-> "Key::URef"])

\* C22 as claimed: a StoredContractByURef item of a 32-byte address passes the
\* known-key and readability checks if and only if the account knows some
\* readable URef of that address; it fails with KeyNotFound when no known key
\* has the address and with ForgedReference when the address is known but not
\* readable.
C22_Original ==
    SessionByURef =>
        /\ URefChecksPassed <=> SomeReadableKnown
        /\ KnownAt = {} => SessionRejectedWith(KeyNotFound(SessionReadOnlyURef))
        /\ (KnownAt # {} /\ ~SomeReadableKnown) =>
              SessionRejectedWith(ForgedReference(SessionReadOnlyURef))

\* a stored-contract item of a wrong length was handed to get_module as the
\* i-th item of the deploy
WrongLengthItem(i) ==
    /\ Len(resolved) >= i
    /\ resolved[i].kind \in {"StoredContractByHash", "StoredContractByURef"}
    /\ resolved[i].len # 32

\* the key get_module would read for the item, had its length been right
ItemKey(item) ==
    IF item.kind = "StoredContractByHash" THEN HashKey(item.hash)
    ELSE normalize(URefKey(item.uref, "READ"))

\* C23: a StoredContractByHash item whose hash is not 32 bytes long and a
\* StoredContractByURef item whose address is not 32 bytes long make
\* get_module return InvalidHashLength {expected: 32, actual: the length}
\* without a read of the tracking copy, and deploy returns it as a
\* precondition failure, for the session item and for the payment item.
C23_InvalidHashLength ==
    /\ (SessionResolved /\ WrongLengthItem(1)) =>
          /\ SessionRejectedWith(InvalidHashLength(32, resolved[1].len))
          /\ DOMAIN tracking_copy.fns = {AccountKey(Addr.account)}
    /\ (pc # "payment" /\ WrongLengthItem(2)) =>
          /\ ReturnedPreconditionFailure(InvalidHashLength(32, resolved[2].len))
          /\ calls = <<>>
          /\ resolved[1].kind = "ModuleBytes" =>
                ItemKey(resolved[2]) \notin DOMAIN tracking_copy.fns

C23_Witness ==
    /\ SessionResolved
    /\ WrongLengthItem(1)
    /\ resolved[1].kind = "StoredContractByHash"
    /\ ItemKey(resolved[1]) \in DOMAIN PreStore
    /\ ReturnedPreconditionFailure(InvalidHashLength(32, 31))

\* the payment item's case of C23
C23_WitnessPayment ==
    /\ WrongLengthItem(2)
    /\ resolved[1].kind = "ModuleBytes"
    /\ resolved[2].kind = "StoredContractByURef"
    /\ ItemKey(resolved[2]) \in DOMAIN PreStore
    /\ ReturnedPreconditionFailure(InvalidHashLength(32, 33))

\* commit_genesis_with_chainspec returned Ok
GenesisOk == pc = "done" /\ ret.kind = "Ok"

GenesisCommitted ==
    [prestate_hash |-> EmptyRoot, effects |-> effect(tracking_copy), ok |-> TRUE]

\* C25: genesis commits exactly once on a successful run, as its last step,
\* against the empty root and with the transforms of the one tracking copy
\* every installer and mint execution ran on; no commit is made and no root
\* is added before that step; the system account's mint call, the last, is
\* for zero motes and leaves its purse with a balance of zero.
C25_GenesisSingleCommit ==
    /\ pc # "done" =>
          /\ state.commits = <<>>
          /\ state.roots = (EmptyRoot :> EmptyMap)
    /\ \A i \in DOMAIN calls :
          /\ \A k \in DOMAIN calls[i].tc.fns : k \in DOMAIN tracking_copy.fns
          /\ i > 1 => \A k \in DOMAIN calls[i - 1].tc.fns : k \in DOMAIN calls[i].tc.fns
    /\ GenesisOk =>
          /\ state.commits = <<GenesisCommitted>>
          /\ ret.result.effect = effect(tracking_copy)
          /\ DOMAIN state.roots = {EmptyRoot, ret.result.post_state_hash}
          /\ state.roots[EmptyRoot] = EmptyMap
          /\ state.roots[ret.result.post_state_hash] =
                ApplyEffects(EmptyMap, effect(tracking_copy))
          /\ calls[Len(calls)].args = <<MINT_METHOD_NAME, 0>>
          /\ tracking_copy.view[BalanceKeyOf(SYSTEM_ACCOUNT_ADDR)] = U512Value(0)

C25_Witness ==
    /\ GenesisOk
    /\ Len(calls) = 5
    /\ Len(state.commits) = 1
    /\ deploy_in.accounts = <<GenesisAccount(1, 5, 3), GenesisAccount(2, 7, 0)>>
    /\ tracking_copy.view[BalanceKeyOf(1)] = U512Value(5)
    /\ tracking_copy.view[BalanceKeyOf(2)] = U512Value(7)

\* the turns of the account loop made so far
AccountsCreated ==
    IF pc \in {"create_account", "genesis_commit"} \/ GenesisOk
    THEN Len(deploy_in.accounts) + 1 - Len(loc.accounts)
    ELSE 0

\* the keys are READ-only URefs of the two references' addresses
AttenuatedReferences(known_keys) ==
    /\ DOMAIN known_keys = {MINT_NAME, POS_NAME}
    /\ known_keys[MINT_NAME] = URefKey(loc.mint_reference.addr, "READ")
    /\ known_keys[POS_NAME] = URefKey(loc.proof_of_stake_reference.addr, "READ")

\* the keys are the references as the installers returned them
FullReferences(known_keys) ==
    /\ DOMAIN known_keys = {MINT_NAME, POS_NAME}
    /\ known_keys[MINT_NAME] = MintReference
    /\ known_keys[POS_NAME] = ProofOfStakeReference

WrittenAccount(public_key) == tracking_copy.view[AccountKey(public_key)]

\* C26: each turn of the account loop for a chainspec account writes the
\* account with READ-only URefs of the mint's and the PoS's addresses as its
\* known keys, and the turn for the system account (address 0) writes it with
\* the full-rights references the installers returned; the record of every
\* chainspec account at another address than the system account's keeps
\* READ-only references to the end, none with WRITE or ADD rights.
C26_GenesisKnownKeys ==
    AccountsCreated >= 1 =>
        /\ IF AccountsCreated <= Len(deploy_in.accounts)
           THEN AttenuatedReferences(
                    WrittenAccount(deploy_in.accounts[AccountsCreated].public_key).known_keys)
           ELSE FullReferences(WrittenAccount(SYSTEM_ACCOUNT_ADDR).known_keys)
        /\ \A i \in DOMAIN deploy_in.accounts :
              (i <= AccountsCreated
               /\ deploy_in.accounts[i].public_key # SYSTEM_ACCOUNT_ADDR) =>
                 /\ AttenuatedReferences(
                        WrittenAccount(deploy_in.accounts[i].public_key).known_keys)
                 /\ \A n \in DOMAIN WrittenAccount(deploy_in.accounts[i].public_key).known_keys :
                       ~is_writeable(
                           WrittenAccount(deploy_in.accounts[i].public_key).known_keys[n])

C26_Witness ==
    /\ GenesisOk
    /\ AccountsCreated = 3
    /\ deploy_in.accounts[1].public_key = 1
    /\ deploy_in.accounts[2].public_key = 2
    /\ AttenuatedReferences(WrittenAccount(1).known_keys)
    /\ FullReferences(WrittenAccount(SYSTEM_ACCOUNT_ADDR).known_keys)

\* commit_genesis_with_chainspec returned Err
GenesisErr == pc = "done" /\ ret.kind = "Err"

\* the execution last made returned a value that is no URef
LastReturnNotURef == calls # <<>> /\ loc.result.ok /\ ~IsURef(loc.result.value)

\* the public keys of the chainspec accounts bonded with a non-zero amount
BondedKeys ==
    {deploy_in.accounts[i].public_key :
        i \in {j \in DOMAIN deploy_in.accounts : deploy_in.accounts[j].bonded_amount # 0}}

\* C27: the first execution of genesis is the mint installer (no arguments),
\* the second the PoS installer, run only after the mint installer returned a
\* URef and given exactly that URef and the bonded validators as arguments;
\* every later execution is a call of the mint's "mint" on the mint
\* reference, made after both installers returned URefs; when an execution
\* returns a value that is no URef, genesis ends with TypeMismatch expecting
\* "URef", with no later execution, no account written and no commit.
C27_GenesisOrdering ==
    /\ (pc = "mint_installer" => calls = <<>>)
    /\ (pc = "pos_installer" => Len(calls) = 1)
    /\ (pc = "mint_module" => Len(calls) = 2)
    /\ \A i \in DOMAIN calls :
          /\ i = 1 =>
                /\ calls[i].args = <<>>
                /\ calls[i].base_key = AccountKey(SYSTEM_ACCOUNT_ADDR)
                /\ calls[i].key_lookup = EmptyMap
          /\ i = 2 =>
                /\ loc.mint_reference = MintReference
                /\ Len(calls[i].args) = 2
                /\ calls[i].args[1] = loc.mint_reference
                /\ DOMAIN calls[i].args[2] = BondedKeys
                /\ \A pk \in BondedKeys :
                      /\ calls[i].args[2][pk] # 0
                      /\ \E j \in DOMAIN deploy_in.accounts :
                            /\ deploy_in.accounts[j].public_key = pk
                            /\ deploy_in.accounts[j].bonded_amount = calls[i].args[2][pk]
                /\ calls[i].base_key = AccountKey(SYSTEM_ACCOUNT_ADDR)
                /\ calls[i].key_lookup = (MINT_NAME :> loc.mint_reference)
                /\ normalize(MintReference) \in DOMAIN calls[i].tc.fns
                   \/ calls[i].tc = calls[1].tc
          /\ i >= 3 =>
                /\ loc.mint_reference = MintReference
                /\ loc.proof_of_stake_reference = ProofOfStakeReference
                /\ calls[i].args[1] = MINT_METHOD_NAME
                /\ calls[i].base_key = loc.mint_reference
    /\ (pc = "done" /\ LastReturnNotURef) =>
          /\ ret = [kind |-> "Err",
                    error |-> TypeMismatch("URef", loc.result.value.ty)]
          /\ Len(calls) = 1 => loc.mint_reference = NoKey
          /\ Len(calls) <= 2 =>
                /\ loc.proof_of_stake_reference = NoKey
                /\ loc.accounts = <<>>
                /\ WrittenAccount(SYSTEM_ACCOUNT_ADDR) = virtual_system_account
          /\ state.commits = <<>>

C27_Witness ==
    /\ pc = "done"
    /\ Len(calls) = 2
    /\ LastReturnNotURef
    /\ ret.kind = "Err"
    /\ ret.error.kind = "TypeMismatch"
    /\ calls[2].args = <<MintReference, 1 :> 3>>

\* the system account as the account loop builds it
CreatedSystemAccount ==
    Account_create(SYSTEM_ACCOUNT_ADDR,
                   (MINT_NAME :> MintReference) @@ (POS_NAME :> ProofOfStakeReference),
                   PurseOf(SYSTEM_ACCOUNT_ADDR))

\* the chainspec lists an account of the system account's address
ListsSystemAddress ==
    \E i \in DOMAIN deploy_in.accounts :
        deploy_in.accounts[i].public_key = SYSTEM_ACCOUNT_ADDR

\* C29: in the effects genesis commits and returns, the value at
\* Account(0^32) is the account the loop built (main purse the URef the mint
\* call returned, known keys the full-rights mint and PoS references), not
\* the placeholder of the default URef purse and no known keys; so is the
\* value under the committed root; also when the chainspec lists an account
\* of address 0^32.
C29_GenesisSystemAccountRecord ==
    GenesisOk =>
        /\ ret.result.effect[AccountKey(SYSTEM_ACCOUNT_ADDR)] = Write(CreatedSystemAccount)
        /\ state.commits[1].effects[AccountKey(SYSTEM_ACCOUNT_ADDR)] =
              Write(CreatedSystemAccount)
        /\ state.roots[ret.result.post_state_hash][AccountKey(SYSTEM_ACCOUNT_ADDR)] =
              CreatedSystemAccount
        /\ CreatedSystemAccount # virtual_system_account
        /\ CreatedSystemAccount.main_purse = loc.result.value.key

C29_Witness ==
    /\ GenesisOk
    /\ ListsSystemAddress
    /\ Len(deploy_in.accounts) = 2
    /\ deploy_in.accounts[2].public_key = SYSTEM_ACCOUNT_ADDR
    /\ ret.result.effect[AccountKey(SYSTEM_ACCOUNT_ADDR)] = Write(CreatedSystemAccount)

\* the failure came after the protocol-data write
FailedAfterFirstStep == GenesisErr /\ (state.failed \/ tracking_copy # NoTc)

\* the failure is commit's own
CommitFailed ==
    /\ GenesisErr
    /\ pc = "done"
    /\ Len(calls) = Len(deploy_in.accounts) + 3
    /\ loc.result.ok
    /\ IsURef(loc.result.value)

\* C30: when genesis returns Err the state provider holds the empty root
\* only; no commit was called, unless the failing step is the commit itself,
\* which is then the only one called and produces no root; after a failure of
\* any step later than the protocol-data write, the record of the protocol
\* version is the state provider's only change.
C30_GenesisFailureNoRoot ==
    /\ GenesisErr =>
          /\ state.roots = (EmptyRoot :> EmptyMap)
          /\ IF CommitFailed
             THEN /\ Len(state.commits) = 1
                  /\ ~state.commits[1].ok
                  /\ ret.error = Err("StorageError")
             ELSE state.commits = <<>>
    /\ FailedAfterFirstStep =>
          state.protocol_data = (deploy_in.protocol_version :> deploy_in.wasm_costs)
    /\ (GenesisErr /\ ~FailedAfterFirstStep) => state = NewProvider(EmptyRoot :> EmptyMap)

C30_Witness ==
    /\ GenesisErr
    /\ Len(calls) = 4
    /\ LastReturnNotURef
    /\ AccountKey(1) \in DOMAIN tracking_copy.fns
    /\ state.commits = <<>>
    /\ state.roots = (EmptyRoot :> EmptyMap)
    /\ state.protocol_data = (deploy_in.protocol_version :> deploy_in.wasm_costs)

\* the session executor call was made, and its result
SessionRan ==
    \/ config.use_payment_code /\ loc.session_result.tag # "None"
    \/ ~config.use_payment_code /\ ReturnedVia("session_without_payment")

SessionRunResult ==
    IF config.use_payment_code THEN loc.session_result ELSE ret.result

\* the set_action_threshold calls the session made for `action_type`
HostCallsFor(action_type) ==
    {i \in DOMAIN loc.host_calls : loc.host_calls[i].action_type = action_type}

RejectedFor(action_type) ==
    {i \in HostCallsFor(action_type) : ~loc.host_calls[i].accepted}

\* the thresholds of the deploying account in a global state
Thresholds(store) ==
    <<store[AccountKey(Addr.account)].key_management,
      store[AccountKey(Addr.account)].deployment>>

WritesAccount(effects) ==
    /\ AccountKey(Addr.account) \in DOMAIN effects
    /\ effects[AccountKey(Addr.account)].t # "Identity"

C28_WitnessS6 ==
    /\ pc = "committed"
    /\ deploy_in.authorization_keys = {1}
    /\ deploy_in.session.args[1] = 2
    /\ loc.host_calls = <<HostCall("KeyManagement", 2, FALSE)>>
    /\ ret.result.error = Revert(100)

\* the same revert after an accepted change, payment disabled
C28_WitnessWithoutPayment ==
    /\ ~config.use_payment_code
    /\ pc = "committed"
    /\ Len(loc.host_calls) = 2
    /\ loc.host_calls[1].accepted
    /\ ret.result.error = Revert(200)

\* a deploy is under way or has returned (genesis is over)
Deploying == "session" \in DOMAIN deploy_in

\* deploy's lookups of both system contracts find `known_keys`' references
LookupsFind(known_keys) ==
    /\ SystemContractURef(known_keys, MINT_NAME) =
          [found |-> TRUE, key |-> normalize(MintReference)]
    /\ SystemContractURef(known_keys, POS_NAME) =
          [found |-> TRUE, key |-> normalize(ProofOfStakeReference)]

\* C31: in every state genesis committed, deploy's lookups by MINT_NAME and
\* POS_NAME find the mint and PoS references in the known keys of every
\* account; the account a deploy against that state loads has both, and
\* such a deploy, payment enabled, never returns MissingSystemContractError.
C31_NameAgreement ==
    /\ \A r \in DOMAIN state.roots \ {EmptyRoot} :
          \A a \in AccountsOf(state.roots[r]) :
              LookupsFind(state.roots[r][AccountKey(a)].known_keys)
    /\ (Deploying /\ loc.account # NotFound) => LookupsFind(loc.account.known_keys)
    /\ (Deploying /\ pc = "done" /\ ret.kind = "Ok") =>
          ret.result.error.kind # "MissingSystemContractError"

\* a deploy by a chainspec account that went past the lookup of MINT_NAME
C31_Witness ==
    /\ Deploying
    /\ pc = "done"
    /\ ret.kind = "Ok"
    /\ deploy_in.address = AccountKey(1)
    /\ loc.account # NotFound
    /\ normalize(MintReference) \in DOMAIN tracking_copy.fns

\* the session executor call of a deploy with payment enabled was made
SessionExecutedUnderPayment == config.use_payment_code /\ Len(calls) >= 2

\* every executor call so far reported a cost not above its gas limit
CostsWithinLimits ==
    /\ builder.payment.cost <= PayGasLimit.gas
    /\ builder.session.tag # "None" => builder.session.cost <= calls[2].gas_limit.gas

\* C32: whenever the session is executed, the payment-purse balance P read
\* after the payment and the payment cost C satisfy P >= C * CONV_RATE and
\* P >= MAX_PAYMENT, so the session gas limit floor(P / CONV_RATE) - C is
\* not negative; with every reported cost within its gas limit,
\* (payment cost + session cost) * CONV_RATE <= P, and the amount handed to
\* finalize is at most P and at most the payment-purse balance finalize
\* finds.
C32_SessionGasCovered ==
    SessionExecutedUnderPayment =>
        /\ loc.payment_purse_balance >= builder.payment.cost * CONV_RATE
        /\ loc.payment_purse_balance >= MAX_PAYMENT
        /\ (loc.payment_purse_balance \div CONV_RATE) - builder.payment.cost >= 0
        /\ calls[2].gas_limit.gas >= 0
        /\ CostsWithinLimits =>
              /\ (builder.payment.cost + builder.session.cost) * CONV_RATE
                    <= loc.payment_purse_balance
              /\ Len(calls) >= 3 =>
                    /\ calls[3].args[2] =
                          (builder.payment.cost + builder.session.cost) * CONV_RATE
                    /\ calls[3].args[2] <= loc.payment_purse_balance
                    /\ calls[3].args[2] <= calls[3].tc.view[PaymentBalanceKey].v

\* the session used its whole gas limit after a payment that cost gas, and
\* finalize was handed more than MAX_PAYMENT, short of the purse's balance
\* by the remainder of the division
C32_Witness ==
    /\ SessionExecutedUnderPayment
    /\ Len(calls) >= 3
    /\ builder.payment.cost > 0
    /\ builder.session.cost = calls[2].gas_limit.gas
    /\ builder.session.cost > 0
    /\ calls[3].args[2] > MAX_PAYMENT
    /\ calls[3].args[2] < loc.payment_purse_balance

\* deploy runs with the payment logic turned off
PaymentDisabled == Deploying /\ ~config.use_payment_code

\* C33: with use_payment_code false, deploy checks out the pre-state,
\* authorizes and resolves the session module as usual, then makes exactly
\* one executor call (the session, Phase::Session, gas limit
\* DEFAULT_SESSION_MOTES / CONV_RATE = 100,000,000) on the root tracking copy
\* and returns that run's result as it is, effects included when it failed;
\* no system contract is looked up, no balance read, no payment module
\* resolved, no fork taken, nothing set in the result builder, and no
\* payment, forced transfer or finalize made.
C33_PaymentDisabled ==
    PaymentDisabled =>
        /\ pc \in {"checkout", "authorize", "resolve_session",
                   "session_without_payment", "done", "committed"}
        /\ Len(calls) <= 1
        /\ Len(resolved) <= 1
        /\ session_tc = NoTc /\ finalization_tc = NoTc
        /\ builder = NewBuilder
        /\ loc.mint_inner_uref = NoKey
        /\ loc.proof_of_stake_public_uref = NoKey
        /\ loc.rewards_purse_balance_key = NoKey
        /\ loc.account_main_purse_balance_key = NoKey
        /\ loc.payment_result = NoResult
        /\ Returned =>
              \/ /\ ReturnedVia("precondition_failure")
                 /\ calls = <<>>
              \/ /\ ReturnedVia("session_without_payment")
                 /\ Len(calls) = 1
                 /\ resolved = <<deploy_in.session>>
                 /\ loc.account # NotFound
                 /\ calls[1].entry = "exec"
                 /\ calls[1].phase = "Session"
                 /\ calls[1].gas_limit = GasLimit(DEFAULT_SESSION_MOTES \div CONV_RATE)
                 /\ calls[1].gas_limit.gas = 100000000
                 /\ calls[1].base_key = deploy_in.address
                 /\ ret.result.tag \in {"Success", "Failure"}
                 /\ ret.result.cost <= calls[1].gas_limit.gas
                 /\ ret.result.effect = effect(tracking_copy)
        /\ pc = "session_without_payment" => calls = <<>> /\ loc.account # NotFound

\* a failed session returned, with the transfer it had made, for an account
\* that names no mint and holds less than MAX_PAYMENT
C33_Witness ==
    /\ PaymentDisabled
    /\ ReturnedVia("session_without_payment")
    /\ is_failure(ret.result)
    /\ OtherBalanceKey \in DOMAIN ret.result.effect
    /\ MINT_NAME \notin DOMAIN loc.account.known_keys
    /\ tracking_copy.view[MainBalanceKey].v < MAX_PAYMENT

\* the deploy has its tracking copy of the pre-state
CheckedOut == Deploying /\ tracking_copy # NoTc

\* the pre-state holds the account the deploy names
HasAccount ==
    /\ deploy_in.address.tag = "Account"
    /\ deploy_in.address \in DOMAIN PreStore
    /\ PreStore[deploy_in.address].ty = "Account"

PreTc == NewTrackingCopy(PreStore)

PreMintInfo ==
    get_system_contract_info(PreTc, normalize(PreAccount.known_keys[MINT_NAME]))

PrePosInfo ==
    get_system_contract_info(PreTc, normalize(PreAccount.known_keys[POS_NAME]))

PreRewardsPurse ==
    PosPurseBalanceKey(PreTc, PrePosInfo, PreMintInfo.inner_key, POS_REWARDS_PURSE)

PreMainPurse == get_purse_balance_key(PreTc, PreMintInfo.inner_key, PreAccount.main_purse)

PreMainBalance == get_purse_balance(PreTc, PreMainPurse.key)

\* the precondition checks of deploy in the order of the code; the last five
\* are made only with the payment logic on
CheckOrder ==
    <<"authorization", "deployment", "session", "mint", "pos", "rewards_purse",
      "main_purse", "payment">>

\* the check `name`, made on the pre-state by itself, fails; a check whose
\* subject an earlier check has to supply does not fail without it
CheckFails(name) ==
    CASE name = "authorization" ->
            \/ ~HasAccount
            \/ deploy_in.authorization_keys = {}
            \/ ~can_authorize(PreAccount, deploy_in.authorization_keys)
      [] name = "deployment" ->
            HasAccount /\ ~can_deploy_with(PreAccount, deploy_in.authorization_keys)
      [] name = "session" ->
            HasAccount /\ ~get_module(PreTc, deploy_in.session, PreAccount).ok
      [] name = "mint" ->
            HasAccount /\ (MintNamed => ~PreMintInfo.ok)
      [] name = "pos" ->
            HasAccount /\ (PosNamed => ~PrePosInfo.ok)
      [] name = "rewards_purse" ->
            /\ HasAccount /\ MintNamed /\ PosNamed /\ PrePosInfo.ok
            /\ ~PreRewardsPurse.ok
      [] name = "main_purse" ->
            /\ HasAccount /\ MintNamed
            /\ \/ ~PreMainPurse.ok
               \/ ~PreMainBalance.ok
               \/ PreMainBalance.balance < MAX_PAYMENT
      [] OTHER ->
            HasAccount /\ ~get_module(PreTc, deploy_in.payment, PreAccount).ok

\* the error the failing check `name` reports
CheckError(name) ==
    CASE name = "authorization" -> Err("AuthorizationError")
      [] name = "deployment" -> Err("DeploymentAuthorizationFailure")
      [] name = "session" -> get_module(PreTc, deploy_in.session, PreAccount).error
      [] name = "mint" ->
            IF MintNamed THEN Err(PreMintInfo.error)
            ELSE MissingSystemContractError(MINT_NAME)
      [] name = "pos" ->
            IF PosNamed THEN Err(PrePosInfo.error)
            ELSE MissingSystemContractError(POS_NAME)
      [] name = "rewards_purse" -> Err(PreRewardsPurse.error)
      [] name = "main_purse" ->
            IF ~PreMainPurse.ok THEN Err(PreMainPurse.error)
            ELSE IF ~PreMainBalance.ok THEN Err(PreMainBalance.error)
            ELSE Err("InsufficientPaymentError")
      [] OTHER -> get_module(PreTc, deploy_in.payment, PreAccount).error

\* the checks the deploy makes under its configuration
ChecksMade == IF config.use_payment_code THEN 1..8 ELSE 1..3

\* the check at position i fails and none before it does
FirstFailing(i) ==
    /\ CheckFails(CheckOrder[i])
    /\ \A j \in 1..(i - 1) : ~CheckFails(CheckOrder[j])

\* C34: a deploy that has its tracking copy and returns reports the error of
\* the earliest failing check in the order authorization (account key,
\* account lookup, keys), deployment weight, session module, mint, PoS,
\* rewards purse, main-purse balance, payment module, and has run no code
\* by then; when no check fails it does not return a precondition failure
\* without having run code. In particular an unresolvable session module is
\* reported even with a balance below MAX_PAYMENT, and an unresolvable
\* payment module only with a balance of at least MAX_PAYMENT.
C34_CheckOrder ==
    (CheckedOut /\ Returned) =>
        /\ \A i \in ChecksMade :
              FirstFailing(i) =>
                 /\ ReturnedPreconditionFailure(CheckError(CheckOrder[i]))
                 /\ calls = <<>>
        /\ (ReturnedVia("precondition_failure") /\ calls = <<>>) =>
              \E i \in ChecksMade : FirstFailing(i)
        /\ (FirstFailing(3) /\ config.use_payment_code) =>
              ret.result.error \notin {Err("InsufficientPaymentError"),
                                       MissingSystemContractError(MINT_NAME),
                                       MissingSystemContractError(POS_NAME)}
        /\ (config.use_payment_code /\ FirstFailing(8)) =>
              /\ PreMainBalance.balance >= MAX_PAYMENT
              /\ resolved = <<deploy_in.session, deploy_in.payment>>

\* session and payment module both unresolvable, no mint named, the balance
\* below MAX_PAYMENT: the session module's error is the one reported
C34_Witness ==
    /\ CheckedOut /\ Returned
    /\ config.use_payment_code
    /\ FirstFailing(3)
    /\ CheckFails("payment")
    /\ CheckFails("mint")
    /\ CheckFails("pos")
    /\ CheckFails("main_purse")
    /\ PreMainBalance.ok /\ PreMainBalance.balance < MAX_PAYMENT
    /\ ReturnedPreconditionFailure(Err("WasmPreprocessingError"))

\* the payment module's error reported, every earlier check having passed
C34_WitnessPayment ==
    /\ CheckedOut /\ Returned
    /\ config.use_payment_code
    /\ FirstFailing(8)
    /\ PreMainBalance.balance = MAX_PAYMENT
    /\ ReturnedPreconditionFailure(Err("WasmPreprocessingError"))

\* the names of the account's known keys whose normalized form is that of
\* the read-only URef asked for
SameNormalized ==
    {n \in DOMAIN PreAccount.known_keys :
        normalize(PreAccount.known_keys[n]) = normalize(SessionReadOnlyURef)}

NamePosition(name) == CHOOSE i \in DOMAIN NameOrder : NameOrder[i] = name

\* the first of `names` in name order
FirstInNameOrder(names) ==
    CHOOSE n \in names : \A m \in names : NamePosition(n) <= NamePosition(m)

\* C36: for a StoredContractByURef item of full length, every known key
\* whose normalized form equals the normalized read-only URef key is a URef
\* key, so get_module never returns TypeMismatch("Key::URef"); the
\* known-key check ends in KeyNotFound when no known key matches, and
\* otherwise by the first matching key in name order alone: in
\* ForgedReference when that key is not readable, in success when it is,
\* whatever the rights of the matching keys after it.
C36_TypeMismatchUnreachable ==
    SessionByURef =>
        /\ \A n \in SameNormalized : PreAccount.known_keys[n].tag = "URef"
        /\ SameNormalized = KnownAt
        /\ ~SessionRejectedWith([kind |-> "TypeMismatch", expected |-> "Key::URef"])
        /\ IF SameNormalized = {}
           THEN SessionRejectedWith(KeyNotFound(SessionReadOnlyURef))
           ELSE IF is_readable(PreAccount.known_keys[FirstInNameOrder(SameNormalized)])
           THEN URefChecksPassed
           ELSE SessionRejectedWith(ForgedReference(SessionReadOnlyURef))

\* the account's only key at the address is a Hash key: KeyNotFound
C36_Witness ==
    /\ SessionByURef
    /\ \E n \in DOMAIN PreAccount.known_keys :
          /\ PreAccount.known_keys[n].tag = "Hash"
          /\ PreAccount.known_keys[n].addr = resolved[1].uref
    /\ SessionRejectedWith(KeyNotFound(SessionReadOnlyURef))

\* two known URefs of the address, the first readable and the second not:
\* the checks pass
C36_WitnessFirstReadable ==
    /\ SessionByURef
    /\ Cardinality(SameNormalized) = 2
    /\ \E n \in SameNormalized : ~is_readable(PreAccount.known_keys[n])
    /\ URefChecksPassed

\* two known URefs of the address, the first not readable and the second
\* readable: ForgedReference
C36_WitnessFirstNotReadable ==
    /\ SessionByURef
    /\ Cardinality(SameNormalized) = 2
    /\ \E n \in SameNormalized : is_readable(PreAccount.known_keys[n])
    /\ SessionRejectedWith(ForgedReference(SessionReadOnlyURef))

\* call() has stored the contract
ContractStored == pc = "mail_stored"

LastInvocation == calls[Len(calls)]

StoredList == loc.store[loc.urefs["list"]]

ListBefore == loc.before.store[loc.before.urefs["list"]]

\* C35: once call() has stored the contract, after any invocations of
\* mailing_list_ext: every name in the stored list is bound in the
\* contract's known keys and occurs in the list once, and "pub" ends
\* normally; a "sub" for a name already bound, "list" included, leaves the
\* list, every binding and every value stored before as they were; a "pub"
\* leaves the list and the bindings as they were and appends the message
\* once to the mailbox of each listed name.
C35_MailingList ==
    ContractStored =>
        /\ "list" \in DOMAIN loc.urefs
        /\ \A i \in DOMAIN StoredList : StoredList[i] \in DOMAIN loc.urefs
        /\ \A i, j \in DOMAIN StoredList : StoredList[i] = StoredList[j] => i = j
        /\ calls # <<>> =>
              /\ LastInvocation.method_name \in {"sub", "pub"} => loc.ok
              /\ (/\ LastInvocation.method_name = "sub"
                  /\ LastInvocation.arg \in DOMAIN loc.before.urefs) =>
                    /\ StoredList = ListBefore
                    /\ loc.urefs = loc.before.urefs
                    /\ \A a \in DOMAIN loc.before.store :
                          loc.store[a] = loc.before.store[a]
              /\ LastInvocation.method_name = "pub" =>
                    /\ StoredList = ListBefore
                    /\ loc.urefs = loc.before.urefs
                    /\ \A i \in DOMAIN StoredList :
                          loc.store[loc.urefs[StoredList[i]]] =
                             Append(loc.before.store[loc.urefs[StoredList[i]]],
                                    LastInvocation.arg)

\* alice and bob subscribed, alice and "list" subscribed again, and a
\* message was published to the two of them
C35_Witness ==
    /\ ContractStored
    /\ Len(calls) = 5
    /\ [method_name |-> "sub", arg |-> "list"] \in {calls[i] : i \in 1..4}
    /\ \E i, j \in 1..4 :
          i # j /\ calls[i] = calls[j] /\ calls[i] = [method_name |-> "sub", arg |-> "alice"]
    /\ LastInvocation = [method_name |-> "pub", arg |-> "m1"]
    /\ StoredList = <<"alice", "bob">>
    /\ loc.store[loc.urefs["alice"]] = <<"Welcome!", "m1">>
    /\ loc.store[loc.urefs["bob"]] = <<"Welcome!", "m1">>

\* a second subscription of a bound name just made: a new mailbox that no
\* name is bound to, the rest as before
C35_WitnessSubAgain ==
    /\ ContractStored
    /\ calls # <<>>
    /\ LastInvocation = [method_name |-> "sub", arg |-> "bob"]
    /\ "bob" \in DOMAIN loc.before.urefs
    /\ \E a \in DOMAIN loc.store \ DOMAIN loc.before.store :
          loc.store[a] = <<"Hello again!">>

====
